---- MODULE Spec2Model ----
(***************************************************************************)
(* Rate-limited, retrying HTTP dispatch of the mips repository:            *)
(*   lib/gateway/base/rps_limiter.py  ThreadingLimiter                     *)
(*   lib/gateway/base/gw.py           HTTPClient                           *)
(* and the MIPS client built on it:                                        *)
(*   lib/gateway/mips.py              MIPSClient, MIPSTask                 *)
(*                                                                         *)
(* Threads share one HTTPClient.  Each thread repeatedly calls            *)
(* make_request; every attempt of _make_request enters the selected        *)
(* limiter (semaphore, then rate lock, sleep, timestamp store), sends,     *)
(* leaves the limiter and classifies the response; the retry decorator     *)
(* re-runs the attempt on ServerError / UnexpectedStatusCodeError.         *)
(*                                                                         *)
(* Time is the millisecond clock time.time()*1000 read by the limiter.     *)
(* The code only ever uses differences "clock - stored timestamp" and      *)
(* compares them with interval_ms, so the clock is kept in 0..Horizon:     *)
(* once it reaches Horizon a tick shifts every stored timestamp down by    *)
(* one instead (clamped at 0, "at least Horizon ago").  With               *)
(* Horizon >= IntervalMs every difference the code computes is unchanged   *)
(* wherever it is below IntervalMs, and saturates above it.                *)
(***************************************************************************)
EXTENDS Integers, Sequences, FiniteSets, Bags, TLC

\* ------------------------------------------------------------------ bounds
NumThreads == 3          \* threads sharing the client
IntervalMs == 2          \* interval_ms = 1000/rps of every limiter, in ticks
MaxCap == 2              \* largest concurrent_requests a limiter is built with

MaxTasks == 2            \* longest devices list of a bulk call
MaxWorkers == 2          \* largest explicit th_cap
MaxTimeout == 1          \* largest self.timeout, in seconds

Horizon == IntervalMs + 1
Threads == 1..NumThreads
TaskSlots == 1..MaxTasks
MaxWorkflows == 2        \* most workflows one execute_tasks submits
Workflows == 1..MaxWorkflows

\* --------------------------------------------------------------- constants
TriesOneShort == 3 * 3   \* (mutation: one attempt fewer)
Tries == 10              \* retry(tries=10)
Delay == 1               \* retry(delay=1)
Backoff == 2             \* retry(backoff=2)
Unlocked == 0            \* threading.Lock() with no holder
NoCap == 0               \* concurrent_requests is None
NoResponse == 0          \* sesh.send raised: there is no status code
NoPage == 0              \* page is None
NoThCap == 0             \* th_cap is None
Idle == 0                \* a pool thread with no work item
NoThread == 0            \* cookies of the bare requests.session()
DEFAULT_THREAD_COUNT == 20
R_REQUEST == 1
W_REQUEST == 2
TgTries == 3             \* tries of the retry decorator of send_message
SheetTries == 10         \* tries of the retry decorator of __make_request
DEV_ENV == "development"

Max(a, b) == IF a >= b THEN a ELSE b
Min(a, b) == IF a <= b THEN a ELSE b

\* ---------------------------------------------------------------- alphabet
\* Limiter instances a client can own: the blanket one, or one per
\* configured by-method key (the key is kept exactly as configured).
ConfigKeys == {"get", "put", "GET"}
LimiterIds == {"base"} \cup ConfigKeys
NoLimiter == "None"
Methods == {"GET", "get", "Get", "PUT", "POST"}
StatusCodes == {200, 301, 404, 500}
Outcomes == StatusCodes \cup {NoResponse}

VARIABLES
    now,                 \* time.time() * 1000
    \* ThreadingLimiter fields, per limiter instance
    concurrent_requests, \* constructor argument (NoCap: None)
    last_request_time,
    rps_lock,            \* holder of the threading.Lock, or Unlocked
    sem,                 \* free slots of the threading.Semaphore
    \* HTTPClient fields
    rps_by_method,       \* None, or the dict of limiters by configured key
    base_rps_limiter,    \* "base" or NoLimiter (None)
    \* per thread: one make_request call
    pc,
    req,                 \* req.method of the call
    limiter,             \* limiter chosen by _request_wrapper
    tries,               \* _tries of the retry decorator
    delay,               \* _delay of the retry decorator
    wake,                \* instant the limiter's time.sleep may return
    result,              \* what make_request returned or raised
    \* history
    lastProceed,         \* per limiter: instant of the latest proceed, -1 if none
    lastGap,             \* per limiter: min(IntervalMs, gap of the last two proceeds), -1 if < 2
    sends,               \* per thread: sends of the current call
    seCount,             \* per thread: sends of the current call answered 5xx
    first,               \* per thread: outcome of the first send of the call
    last,                \* per thread: outcome of the latest send of the call
    logged,              \* per thread: log records of the latest attempt of the call
    \* response_to_exception applied to one response
    r_status_code,       \* r.status_code
    r_exception,         \* what response_to_exception(r) returned, "unset" before
    \* MIPSClient.get_devices: one call and the listing it pages through
    srv_pages,           \* the server's listing: number of devices of each page
    srv_skew,            \* how far the page the server reports is from the page asked
    gd_reported,         \* pagination["page"] of the latest response (NoPage: none yet)
    gd_pc,
    gd_page,             \* page argument of the current activation (NoPage: None)
    gd_results,          \* results argument of the current activation
    gd_depth,            \* nested activations of get_devices
    gd_fetches,          \* page requests sent by the call
    gd_ret,              \* the (devices, error) tuple the call returned
    \* MIPSClient.patch_backlight_and_validate_bulk: one call
    b_pc,
    timeout,             \* self.timeout, in seconds
    devices,             \* devices argument
    th_cap,              \* th_cap argument (NoThCap: None), then the resolved cap
    shadow_mode,         \* shadow_mode argument ("None"), then the resolved flag
    group_timeout,
    clock,               \* seconds since the call began waiting
    fstate,              \* per task: state of its Future
    cancelled,           \* per task: MIPSTask.cancelled
    outcome,             \* per task: how its operation ended
    started,             \* per task: start_ts its operation stamped
    worker,              \* per pool thread: the task it is running, or Idle
    done,                \* futures.wait's first set
    timed_out,           \* futures.wait's second set
    ts,                  \* ts = utils.get_current_timestamp() after the wait
    results,             \* the list results, as the bag of its entries
    cancelOk,            \* tasks whose fut.cancel() returned True
    \* MIPSClient.auth / needs_auth: threads calling decorated methods
    ok_auth,             \* self.__ok_auth
    cookies,             \* self.sesh.cookies: the thread whose response they came from
    a_pc,                \* per thread
    \* MIPSClient.patch_backlight_and_validate: one call
    pv_pc,
    device_id,
    switch_status,
    pv_shadow,           \* shadow_mode argument ("None"), then the resolved flag
    pv_put,              \* how the PUT of patch_backlight ended, "unsent" before
    pv_get,              \* how the GET of get_backlight_settings ended, "unsent" before
    bl_status,           \* the status get_backlight_settings returned
    pv_result,           \* the PatchBacklightAndValidateResult being built
    \* App.execute_tasks and the workflows it submits
    wf_pc,               \* per workflow: where App.patch_backlight is
    wf_fetch,            \* per workflow: how get_devices ended, "none" before
    wf_error,            \* per workflow: result.error
    wf_sent,             \* per workflow: the chat notifications sent
    et_pc,               \* where execute_tasks is
    et_results,          \* the workflows whose result execute_tasks collected
    \* GoogleSheetsGateway._make_request: one call
    sh_pc,
    sh_type,             \* req_type
    sh_entered,          \* the limiters entered during the call
    sh_attempts,         \* calls of req.execute()
    sh_seen,             \* what the attempts so far ended with
    sh_ret,              \* the tuple returned
    \* TelegramGateway.send_message: one call
    tg_pc,
    tg_is_log,           \* is_log argument ("None"), then the resolved flag
    tg_attempts,         \* calls of make_request
    tg_seen,             \* what the attempts so far ended with
    tg_asked,            \* the retry_after values of the 429 answers, in order
    tg_slept,            \* the arguments of time.sleep(e.sleep_for), in order
    tg_ret,              \* what send_message returned
    \* GoogleSheetsGateway.append_data: the appends to one tab
    sheet_rows,          \* the data rows of the tab, oldest first: the append each came from
    row_limit,
    ap_count,            \* calls of append_data so far
    ap_last,             \* the latest call: lengths, to_delete, batch, rows removed
    \* the while True loop of main.py
    lp_pc,
    lp_env,              \* setup.app_config.env
    sleep_between_runs,  \* setup.app_config.sleep_between_runs
    lp_elapsed,          \* custom_timer.elapsed of the iteration
    lp_pending,          \* the exception the finally block re-raises at its end
    lp_slept,            \* the argument of the latest time.sleep
    lp_iterations,       \* iterations of main() completed
    lp_end               \* what ended the loop

limVars == <<concurrent_requests, last_request_time, rps_lock, sem>>
clientVars == <<rps_by_method, base_rps_limiter>>
callVars == <<pc, req, limiter, tries, delay, wake, result>>
histVars == <<lastProceed, lastGap>>
traceVars == <<sends, seCount, first, last, logged>>
classifyVars == <<r_status_code, r_exception>>
httpVars == <<now, limVars, clientVars, callVars, histVars, traceVars>>
pagVars == <<srv_pages, srv_skew, gd_reported, gd_pc, gd_page, gd_results, gd_depth,
             gd_fetches, gd_ret>>
bulkArgs == <<timeout, devices>>
poolVars == <<fstate, cancelled, outcome, started, worker>>
bulkVars == <<b_pc, bulkArgs, th_cap, shadow_mode, group_timeout, clock, poolVars,
              done, timed_out, ts, results, cancelOk>>
authVars == <<ok_auth, cookies, a_pc>>
pvVars == <<pv_pc, device_id, switch_status, pv_shadow, pv_put, pv_get, bl_status,
           pv_result>>
mipsVars == <<pagVars, bulkVars, authVars, pvVars>>
wfVars == <<wf_pc, wf_fetch, wf_error, wf_sent, et_pc, et_results>>
shVars == <<sh_pc, sh_type, sh_entered, sh_attempts, sh_seen, sh_ret>>
tgVars == <<tg_pc, tg_is_log, tg_attempts, tg_seen, tg_asked, tg_slept, tg_ret>>
rowVars == <<sheet_rows, row_limit, ap_count, ap_last>>
loopVars == <<lp_pc, lp_env, sleep_between_runs, lp_elapsed, lp_pending, lp_slept,
             lp_iterations, lp_end>>
appVars == <<wfVars, shVars, tgVars, rowVars, loopVars>>
vars == <<httpVars, classifyVars, mipsVars, appVars>>

NoResult == [kind |-> "none", status |-> NoResponse]
NotNone(keys) == [none |-> FALSE, keys |-> keys]
None == [none |-> TRUE, keys |-> {}]
NoReturn == [returned |-> FALSE, none |-> TRUE, devices |-> <<>>, error |-> "None"]

\* ------------------------------------------------------------ HTTPClient
\* str.lower() on the method names and keys in use.
Lower(m) ==
    CASE m \in {"GET", "Get", "get"} -> "get"
      [] m \in {"PUT", "put"} -> "put"
      [] m \in {"POST"} -> "post"

\* HTTPClient.__init__ with _parse_rps_config: the two limiter attributes
\* after construction with the given parsing mode and configured keys.
\* ThreadingLimiter(**setup) is built per key of cfg["method"], under that key.
ParsedByMethod(mode, keys) == IF mode = "method" THEN NotNone(keys) ELSE None

\* (mutation: the blanket limiter is built in every mode)
ParsedBaseAlways(mode) == "base"

ParsedBase(mode) == IF mode = "blanket" THEN "base" ELSE NoLimiter

\* (mutation: the method name is looked up as given, without .lower())
SelectLimiterAsGiven(m) ==
    IF ~rps_by_method.none
    THEN IF m \in rps_by_method.keys THEN m ELSE NoLimiter
    ELSE IF base_rps_limiter # NoLimiter THEN base_rps_limiter ELSE NoLimiter

\* HTTPClient._request_wrapper: the limiter handed to _make_request.
SelectLimiter(m) ==
    IF ~rps_by_method.none
    THEN IF Lower(m) \in rps_by_method.keys THEN Lower(m) ELSE NoLimiter
    ELSE IF base_rps_limiter # NoLimiter THEN base_rps_limiter ELSE NoLimiter

\* (mutation: every 2xx status counts as success)
response_to_exception_2xx(s) ==
    IF 200 <= s /\ s < 300 THEN "None"
    ELSE IF 400 <= s /\ s < 500 THEN "ClientError"
    ELSE IF 500 <= s /\ s < 600 THEN "ServerError"
    ELSE "UnexpectedStatusCodeError"

\* HTTPClient.response_to_exception: the exception class built from a
\* status code, "None" when it returns nothing.
response_to_exception(s) ==
    IF s = 200 THEN "None"
    ELSE IF 400 <= s /\ s < 500 THEN "ClientError"
    ELSE IF 500 <= s /\ s < 600 THEN "ServerError"
    ELSE "UnexpectedStatusCodeError"

\* (mutation: retry on every exception class)
RetriedAny(kind) == kind \in {"ClientError", "ServerError", "UnexpectedStatusCodeError"}

\* @retry.retry(exceptions=(ServerError, UnexpectedStatusCodeError), ...)
Retried(kind) == kind \in {"ServerError", "UnexpectedStatusCodeError"}

\* ------------------------------------------------------ ThreadingLimiter
Capped(l) == concurrent_requests[l] # NoCap

\* (mutation: acquire() returns although no slot is free)
SemAvailableOffByOne(l) == sem[l] >= 0

\* threading.Semaphore.acquire() returns only while a slot is free.
SemAvailable(l) == sem[l] > 0

\* (mutation: one lock shared by all limiter instances)
LockFreeShared(l) == \A k \in LimiterIds : rps_lock[k] = Unlocked

\* (mutation: __enter__ without "with self.rps_lock:")
LockFreeUnguarded(l) == TRUE

\* threading.Lock.acquire() returns only while nobody holds the lock.
LockFree(l) == rps_lock[l] = Unlocked

\* The argument of time.sleep in __enter__, in ms.
SleepMs(l) == Max(0, IntervalMs - (now - last_request_time[l]))

\* (mutation: acquire/release written without "with": a raising send skips
\* the release)
SemAfterExitUnscoped(l, raised) ==
    IF l # NoLimiter /\ Capped(l) /\ ~raised
    THEN [sem EXCEPT ![l] = @ + 1]
    ELSE sem

\* (mutation: __exit__ that never releases)
SemAfterExitLeaky(l, raised) == sem

\* __exit__ as run by "with limiter:" in _make_request, whether the body
\* returned or raised: the semaphore after it.
SemAfterExit(l, raised) ==
    IF l # NoLimiter /\ Capped(l)
    THEN [sem EXCEPT ![l] = @ + 1]
    ELSE sem

\* (mutation: a retry helper that raises an error of its own on exhaustion)
ReraisedWrapped(e, o) == [kind |-> "RetryError", status |-> o]

\* retry decorator, _tries used up: a bare "raise" re-raises the exception of
\* the attempt that just failed.
Reraised(e, o) == [kind |-> e, status |-> o]

\* (mutation: the delay grows by a constant)
NextDelayAdditive(d) == d + Backoff

\* _delay *= backoff, after time.sleep(_delay)
NextDelay(d) == d * Backoff

\* (mutation: the limiter entered once around the retry loop, so that an
\* attempt goes straight to the send)
AttemptPcUnguarded(l) == "send"

\* Where an attempt of _make_request starts: the bare send, or __enter__.
AttemptPc(l) ==
    IF l = NoLimiter THEN "send"
    ELSE IF Capped(l) THEN "sem" ELSE "lock"

\* ---------------------------------------------------------------- Init
\* The state after HTTPClient(rps_config, rps_config_parsing_mode): every
\* limiter built with last_request_time = time.time() * 1000.
HttpInit(mode, keys, cap) ==
    /\ now = 0
    /\ concurrent_requests = [l \in LimiterIds |-> cap]
    /\ last_request_time = [l \in LimiterIds |-> 0]
    /\ rps_lock = [l \in LimiterIds |-> Unlocked]
    /\ sem = [l \in LimiterIds |-> cap]
    /\ rps_by_method = ParsedByMethod(mode, keys)
    /\ base_rps_limiter = ParsedBase(mode)
    /\ pc = [t \in Threads |-> "idle"]
    /\ req = [t \in Threads |-> "GET"]
    /\ limiter = [t \in Threads |-> NoLimiter]
    /\ tries = [t \in Threads |-> Tries]
    /\ delay = [t \in Threads |-> Delay]
    /\ wake = [t \in Threads |-> 0]
    /\ result = [t \in Threads |-> NoResult]
    /\ lastProceed = [l \in LimiterIds |-> -1]
    /\ lastGap = [l \in LimiterIds |-> -1]
    /\ sends = [t \in Threads |-> 0]
    /\ seCount = [t \in Threads |-> 0]
    /\ first = [t \in Threads |-> NoResponse]
    /\ last = [t \in Threads |-> NoResponse]
    /\ logged = [t \in Threads |-> {}]

\* No response is being classified.
ClassifyIdle == r_status_code = 200 /\ r_exception = "unset"

\* get_devices has not been called.
PagIdle ==
    /\ srv_pages = <<0>>
    /\ srv_skew = 0
    /\ gd_reported = NoPage
    /\ gd_pc = "idle"
    /\ gd_page = NoPage
    /\ gd_results = <<>>
    /\ gd_depth = 0
    /\ gd_fetches = 0
    /\ gd_ret = NoReturn

\* patch_backlight_and_validate_bulk has not been called, on a call of
\* arguments dev, cap, shadow by a client of timeout tmo.
BulkInitially(tmo, dev, cap, shadow) ==
    /\ b_pc = "idle"
    /\ timeout = tmo
    /\ devices = dev
    /\ th_cap = cap
    /\ shadow_mode = shadow
    /\ group_timeout = 0
    /\ clock = 0
    /\ fstate = [i \in TaskSlots |-> "none"]
    /\ cancelled = [i \in TaskSlots |-> FALSE]
    /\ outcome = [i \in TaskSlots |-> "none"]
    /\ started = [i \in TaskSlots |-> 0]
    /\ worker = [w \in TaskSlots |-> Idle]
    /\ done = {}
    /\ timed_out = {}
    /\ ts = 0
    /\ results = EmptyBag
    /\ cancelOk = {}

BulkIdle == BulkInitially(1, <<>>, NoThCap, "None")

\* A client authenticated by its constructor, no decorated method running.
AuthIdle ==
    /\ ok_auth = TRUE
    /\ cookies = NoThread
    /\ a_pc = [t \in Threads |-> "idle"]

\* BACKLIGHT_PARAM_TO_NAME.keys()
SwitchStatuses == {0, 1}

\* bl_status before get_backlight_settings has returned a status.
NoStatus == -1

NoPvResult == [device |-> 0, error |-> "None", mode |-> "production"]

\* patch_backlight_and_validate has not been called, on a call of
\* arguments dev, status, shadow.
PvInitially(dev, status, shadow) ==
    /\ pv_pc = "idle"
    /\ device_id = dev
    /\ switch_status = status
    /\ pv_shadow = shadow
    /\ pv_put = "unsent"
    /\ pv_get = "unsent"
    /\ bl_status = NoStatus
    /\ pv_result = NoPvResult

PvIdle == PvInitially(111, 0, "None")

MipsIdle == PagIdle /\ BulkIdle /\ AuthIdle /\ PvIdle

\* execute_tasks has not been called.
WfIdle ==
    /\ wf_pc = [w \in Workflows |-> "idle"]
    /\ wf_fetch = [w \in Workflows |-> "none"]
    /\ wf_error = [w \in Workflows |-> "None"]
    /\ wf_sent = [w \in Workflows |-> {}]
    /\ et_pc = "idle"
    /\ et_results = {}

NoShRet == [resp |-> "unset", err |-> "unset"]

\* _make_request of the sheets gateway has not been called, on a call of
\* request type ty.
ShInitially(ty) ==
    /\ sh_pc = "idle"
    /\ sh_type = ty
    /\ sh_entered = {}
    /\ sh_attempts = 0
    /\ sh_seen = {}
    /\ sh_ret = NoShRet

ShIdle == ShInitially(R_REQUEST)

\* send_message has not been called, on a call of argument is_log.
TgInitially(is_log) ==
    /\ tg_pc = "idle"
    /\ tg_is_log = is_log
    /\ tg_attempts = 0
    /\ tg_seen = {}
    /\ tg_asked = <<>>
    /\ tg_slept = <<>>
    /\ tg_ret = "unset"

TgIdle == TgInitially("None")

NoAppend == [c |-> 0, n |-> 0, to_delete |-> 0, ops |-> <<>>, removed |-> 0,
             applied |-> FALSE]

\* A tab holding rows, with limit lim, nothing appended yet.
RowsInitially(rows, lim) ==
    /\ sheet_rows = rows
    /\ row_limit = lim
    /\ ap_count = 0
    /\ ap_last = NoAppend

RowsIdle == RowsInitially(<<>>, 1)

\* The loop about to run main() for the first time.
LoopInitially(env, sbr) ==
    /\ lp_pc = "main"
    /\ lp_env = env
    /\ sleep_between_runs = sbr
    /\ lp_elapsed = 0
    /\ lp_pending = "none"
    /\ lp_slept = 0
    /\ lp_iterations = 0
    /\ lp_end = "none"

LoopIdle == LoopInitially(DEV_ENV, 1)

AppIdle == WfIdle /\ ShIdle /\ TgIdle /\ RowsIdle /\ LoopIdle

\* A blanket-mode client whose limiter has no cap or a cap in 1..MaxCap.
Init ==
    /\ \E cap \in {NoCap} \cup (1..MaxCap) : HttpInit("blanket", {}, cap)
    /\ ClassifyIdle
    /\ AppIdle
    /\ MipsIdle

\* -------------------------------------------------------------- actions
\* make_request -> _request_wrapper: choose the limiter once, then enter
\* the retry decorator (_tries, _delay = tries, delay).
MakeRequest(t, m) ==
    /\ pc[t] = "idle"
    /\ req' = [req EXCEPT ![t] = m]
    /\ limiter' = [limiter EXCEPT ![t] = SelectLimiter(m)]
    /\ tries' = [tries EXCEPT ![t] = Tries]
    /\ delay' = [delay EXCEPT ![t] = Delay]
    /\ pc' = [pc EXCEPT ![t] = AttemptPc(SelectLimiter(m))]
    /\ UNCHANGED <<now, limVars, clientVars, wake, result, histVars, traceVars>>
    /\ UNCHANGED <<classifyVars, appVars, mipsVars>>

\* __enter__: self.sem.acquire()
SemAcquire(t) ==
    /\ pc[t] = "sem"
    /\ SemAvailable(limiter[t])
    /\ sem' = [sem EXCEPT ![limiter[t]] = @ - 1]
    /\ pc' = [pc EXCEPT ![t] = "lock"]
    /\ UNCHANGED <<now, concurrent_requests, last_request_time, rps_lock, clientVars,
                   req, limiter, tries, delay, wake, result, histVars, traceVars>>
    /\ UNCHANGED <<classifyVars, appVars, mipsVars>>

\* __enter__: "with self.rps_lock:" and the call of time.sleep(...)
LockAcquire(t) ==
    /\ pc[t] = "lock"
    /\ LockFree(limiter[t])
    /\ rps_lock' = [rps_lock EXCEPT ![limiter[t]] = t]
    /\ wake' = [wake EXCEPT ![t] = now + SleepMs(limiter[t])]
    /\ pc' = [pc EXCEPT ![t] = "sleeping"]
    /\ UNCHANGED <<now, concurrent_requests, last_request_time, sem, clientVars,
                   req, limiter, tries, delay, result, histVars, traceVars>>
    /\ UNCHANGED <<classifyVars, appVars, mipsVars>>

\* __enter__: time.sleep returns (no earlier than asked),
\* self.last_request_time = time.time() * 1000, the lock is released:
\* the thread proceeds into the guarded body.
Proceed(t) ==
    LET l == limiter[t] IN
    /\ pc[t] = "sleeping"
    /\ now >= wake[t]
    /\ last_request_time' = [last_request_time EXCEPT ![l] = now]
    /\ rps_lock' = [rps_lock EXCEPT ![l] = Unlocked]
    /\ lastProceed' = [lastProceed EXCEPT ![l] = now]
    /\ lastGap' = [lastGap EXCEPT ![l] =
                      IF lastProceed[l] = -1 THEN -1
                      ELSE Min(IntervalMs, now - lastProceed[l])]
    /\ wake' = [wake EXCEPT ![t] = 0]
    /\ pc' = [pc EXCEPT ![t] = "send"]
    /\ UNCHANGED <<now, concurrent_requests, sem, clientVars,
                   req, limiter, tries, delay, result, traceVars>>
    /\ UNCHANGED <<classifyVars, appVars, mipsVars>>

\* The rest of one attempt of _make_request: sesh.send answers with status
\* o or raises (o = NoResponse), the limiter is left, the response is
\* classified as e by self.response_to_exception, and the retry decorator either lets the value or exception
\* through to make_request's caller or counts the attempt and goes to sleep.
SendAs(t, o, e) ==
    LET l == limiter[t] IN
    /\ pc[t] = "send"
    /\ sem' = SemAfterExit(l, o = NoResponse)
    /\ IF o = NoResponse
       THEN /\ result' = [result EXCEPT ![t] = [kind |-> "TransportError", status |-> o]]
            /\ pc' = [pc EXCEPT ![t] = "done"]
            /\ tries' = tries
       ELSE IF e = "None"
       THEN /\ result' = [result EXCEPT ![t] = [kind |-> "response", status |-> o]]
            /\ pc' = [pc EXCEPT ![t] = "done"]
            /\ tries' = tries
       ELSE IF Retried(e)
       THEN /\ tries' = [tries EXCEPT ![t] = @ - 1]
            /\ IF tries[t] - 1 = 0
               THEN /\ result' = [result EXCEPT ![t] = Reraised(e, o)]
                    /\ pc' = [pc EXCEPT ![t] = "done"]
               ELSE /\ result' = result
                    /\ pc' = [pc EXCEPT ![t] = "backoff"]
       ELSE /\ result' = [result EXCEPT ![t] = [kind |-> e, status |-> o]]
            /\ pc' = [pc EXCEPT ![t] = "done"]
            /\ tries' = tries
    /\ UNCHANGED <<now, concurrent_requests, last_request_time, rps_lock, clientVars,
                   req, limiter, delay, wake, histVars>>
    /\ UNCHANGED <<classifyVars, appVars, mipsVars>>

\* An attempt of an HTTPClient: the response is classified by
\* HTTPClient.response_to_exception.
Send(t, o) == SendAs(t, o, response_to_exception(o))

\* retry decorator: time.sleep(_delay); _delay *= backoff; call f() again.
BackoffSleep(t) ==
    /\ pc[t] = "backoff"
    /\ delay' = [delay EXCEPT ![t] = NextDelay(@)]
    /\ pc' = [pc EXCEPT ![t] = AttemptPc(limiter[t])]
    /\ UNCHANGED <<now, limVars, clientVars, req, limiter, tries, wake,
                   result, histVars, traceVars>>
    /\ UNCHANGED <<classifyVars, appVars, mipsVars>>

\* The call of make_request is over: its frame of the retry decorator is
\* gone.
Returned(t) ==
    /\ pc[t] = "done"
    /\ pc' = [pc EXCEPT ![t] = "idle"]
    /\ req' = [req EXCEPT ![t] = "GET"]
    /\ limiter' = [limiter EXCEPT ![t] = NoLimiter]
    /\ tries' = [tries EXCEPT ![t] = Tries]
    /\ delay' = [delay EXCEPT ![t] = Delay]
    /\ result' = [result EXCEPT ![t] = NoResult]
    /\ sends' = [sends EXCEPT ![t] = 0]
    /\ seCount' = [seCount EXCEPT ![t] = 0]
    /\ first' = [first EXCEPT ![t] = NoResponse]
    /\ last' = [last EXCEPT ![t] = NoResponse]
    /\ logged' = [logged EXCEPT ![t] = {}]
    /\ UNCHANGED <<now, limVars, clientVars, wake, histVars>>

\* The caller takes the returned response or the raised exception.
Return(t) == Returned(t) /\ UNCHANGED <<classifyVars, appVars, mipsVars>>

\* One millisecond passes.
Tick ==
    /\ IF now < Horizon
       THEN /\ now' = now + 1
            /\ UNCHANGED <<last_request_time, wake, lastProceed>>
       ELSE /\ now' = now
            /\ last_request_time' = [l \in LimiterIds |-> Max(0, last_request_time[l] - 1)]
            /\ wake' = [t \in Threads |-> Max(0, wake[t] - 1)]
            /\ lastProceed' = [l \in LimiterIds |->
                                  IF lastProceed[l] = -1 THEN -1
                                  ELSE Max(0, lastProceed[l] - 1)]
    /\ UNCHANGED <<concurrent_requests, rps_lock, sem, clientVars,
                   pc, req, limiter, tries, delay, result, lastGap, traceVars>>
    /\ UNCHANGED <<classifyVars, appVars, mipsVars>>

\* Send with the per-call trace left alone (the trace is kept in RetrySpec).
SendUntraced(t, o) == Send(t, o) /\ UNCHANGED traceVars

\* What the endpoint of Spec answers: success, a client error, or no
\* response at all.  None of them is retried, so a call is one attempt.
FinalOutcomes == {o \in Outcomes : o = NoResponse \/ ~Retried(response_to_exception(o))}

\* Threads sharing a blanket-mode client, each calling make_request over
\* and over.
Next ==
    \/ \E t \in Threads : MakeRequest(t, "GET")
    \/ \E t \in Threads : SemAcquire(t)
    \/ \E t \in Threads : LockAcquire(t)
    \/ \E t \in Threads : Proceed(t)
    \/ \E t \in Threads, o \in FinalOutcomes : SendUntraced(t, o)
    \/ \E t \in Threads : Return(t)
    \/ Tick

Spec == Init /\ [][Next]_vars

\* Two threads sharing a blanket-mode client whose endpoint answers anything,
\* so that calls retry and back off.
Pair == {t \in Threads : t <= 2}

FullNext ==
    \/ \E t \in Pair : MakeRequest(t, "GET")
    \/ \E t \in Pair : SemAcquire(t)
    \/ \E t \in Pair : LockAcquire(t)
    \/ \E t \in Pair : Proceed(t)
    \/ \E t \in Pair, o \in Outcomes : SendUntraced(t, o)
    \/ \E t \in Pair : BackoffSleep(t)
    \/ \E t \in Pair : Return(t)
    \/ Tick

FullSpec == Init /\ [][FullNext]_vars

\* Two threads sharing a by-method client with one limiter for GET and one
\* for PUT, both limiters capped at one slot or both uncapped.
IndepInit ==
    /\ \E cap \in {NoCap, 1} : HttpInit("method", {"get", "put"}, cap)
    /\ ClassifyIdle
    /\ AppIdle
    /\ MipsIdle

IndepNext ==
    \/ \E t \in Pair, m \in {"GET", "PUT"} : MakeRequest(t, m)
    \/ \E t \in Pair : SemAcquire(t)
    \/ \E t \in Pair : LockAcquire(t)
    \/ \E t \in Pair : Proceed(t)
    \/ \E t \in Pair, o \in FinalOutcomes : SendUntraced(t, o)
    \/ \E t \in Pair : Return(t)
    \/ Tick

IndepSpec == IndepInit /\ [][IndepNext]_vars

\* One thread, the lowest, when a specification follows a single caller.
Caller == CHOOSE t \in Threads : \A u \in Threads : t <= u

\* Log records of an attempt whose send ended with o.  "attempt" is the
\* log.debug of _make_request after the with block (req.method, req.url,
\* r.status_code, t.elapsed), reached only when sesh.send returned;
\* "retrying" is the warning of the retry decorator; "failed" is the
\* log.error of make_request (the exception only) when the call raises.
AttemptLog(o, left) ==
    LET e == response_to_exception(o) IN
    (IF o # NoResponse THEN {"attempt"} ELSE {})
    \cup (IF o # NoResponse /\ Retried(e) /\ left > 1 THEN {"retrying"} ELSE {})
    \cup (IF o = NoResponse \/ (e # "None" /\ (~Retried(e) \/ left = 1))
          THEN {"failed"} ELSE {})

\* Send, with the call's trace kept: how many sends, how many of them
\* answered 5xx, the first and the latest outcome, and what the attempt
\* logged.
SendTraced(t, o) ==
    /\ Send(t, o)
    /\ sends' = [sends EXCEPT ![t] = @ + 1]
    /\ seCount' = [seCount EXCEPT ![t] =
                      IF o # NoResponse /\ response_to_exception(o) = "ServerError"
                      THEN @ + 1 ELSE @]
    /\ first' = [first EXCEPT ![t] = IF sends[t] = 0 THEN o ELSE @]
    /\ last' = [last EXCEPT ![t] = o]
    /\ logged' = [logged EXCEPT ![t] = AttemptLog(o, tries[t])]

\* One caller of a client built with no limiter or with a blanket limiter
\* (capped or not), against an endpoint that answers anything.
RetryInit ==
    /\ \E mode \in {"none", "blanket"}, cap \in {NoCap, MaxCap} : HttpInit(mode, {}, cap)
    /\ ClassifyIdle
    /\ AppIdle
    /\ MipsIdle

RetryNext ==
    \/ MakeRequest(Caller, "GET")
    \/ SemAcquire(Caller)
    \/ LockAcquire(Caller)
    \/ Proceed(Caller)
    \/ \E o \in Outcomes : SendTraced(Caller, o)
    \/ BackoffSleep(Caller)
    \/ Return(Caller)
    \/ Tick

RetrySpec == RetryInit /\ [][RetryNext]_vars

\* The endpoint answers every send, every sleep ends, the clock runs.
RetryFairness ==
    /\ WF_vars(Tick)
    /\ WF_vars(SemAcquire(Caller))
    /\ WF_vars(LockAcquire(Caller))
    /\ WF_vars(Proceed(Caller))
    /\ WF_vars(\E o \in Outcomes : SendTraced(Caller, o))
    /\ WF_vars(BackoffSleep(Caller))

RetryLiveSpec == RetrySpec /\ RetryFairness

\* One caller of a client built in any mode with any set of by-method keys,
\* sending requests of any method.
DispatchInit ==
    /\ \E mode \in {"none", "blanket", "method"} :
       \E keys \in (IF mode = "method" THEN SUBSET ConfigKeys ELSE {{}}) :
          HttpInit(mode, keys, MaxCap)
    /\ ClassifyIdle
    /\ AppIdle
    /\ MipsIdle

DispatchNext ==
    \/ \E m \in Methods : MakeRequest(Caller, m)
    \/ SemAcquire(Caller)
    \/ LockAcquire(Caller)
    \/ Proceed(Caller)
    \/ \E o \in Outcomes : SendUntraced(Caller, o)
    \/ BackoffSleep(Caller)
    \/ Return(Caller)
    \/ Tick

DispatchSpec == DispatchInit /\ [][DispatchNext]_vars

\* response_to_exception applied to a response of any status code.
MinStatus == 100
MaxStatus == 600

Classify ==
    /\ r_exception = "unset"
    /\ r_exception' = response_to_exception(r_status_code)
    /\ UNCHANGED <<r_status_code, httpVars, mipsVars, appVars>>

ClassifyInit ==
    /\ HttpInit("none", {}, NoCap)
    /\ r_status_code \in MinStatus..MaxStatus
    /\ r_exception = "unset"
    /\ MipsIdle
    /\ AppIdle

ClassifyNext == Classify

ClassifySpec == ClassifyInit /\ [][ClassifyNext]_vars

\* ------------------------------------------------- MIPSClient.get_devices
MaxPages == 4            \* largest pagination["max"] the server reports
MaxPageSize == 3         \* most devices on one page

\* What self.make_request raises, or the override of response_to_exception
\* returns, for a page request that does not succeed.
FetchErrors == {"ClientError", "ServerError", "UnexpectedStatusCodeError",
                "TransportError", "InvalidAUTHError"}

\* Every listing of 1..MaxPages pages of 0..MaxPageSize devices each.
PageTables == UNION {[1..n -> 0..MaxPageSize] : n \in 1..MaxPages}

\* resp_body["data"] of page p: the devices <<p, 1>>, <<p, 2>>, ...
PageData(p) ==
    IF p \in DOMAIN srv_pages THEN [k \in 1..srv_pages[p] |-> <<p, k>>] ELSE <<>>

\* r.json() of the request for page p: the server reports the number of
\* pages of its listing and, with srv_skew = 0, the page it was asked for.
ResponseBody(p) ==
    [data |-> PageData(p), pagination |-> [page |-> p + srv_skew, max |-> Len(srv_pages)]]

\* _get_devices_param_to_request: "page": 1 if page is None else page
PageParam(page_arg) == IF page_arg = NoPage THEN 1 ELSE page_arg

\* (mutation: the last page is left out of the returned list)
BaseCaseReturnWithoutLast(acc, data) == acc

\* return results + resp_body["data"], None
BaseCaseReturn(acc, data) == acc \o data

\* results=resp_body["data"] of the recursive call
RecursiveResults(acc, data) == data

\* (mutation: the next page follows the page that was asked for)
NextPageAfterAsked(asked, reported) == asked + 1

\* page=pagination["page"]+1 of the recursive call
NextPage(asked, reported) == reported + 1

\* (mutation: the next page is fetched by the same activation)
NestedLoop(depth) == depth

\* return self.get_devices(...): one more activation on the call stack
Nested(depth) == depth + 1

\* (mutation: a failed page returns what was collected so far)
ErrorReturnPartial(acc, e) ==
    [returned |-> TRUE, none |-> FALSE, devices |-> acc, error |-> e]

\* return None, e
ErrorReturn(acc, e) ==
    [returned |-> TRUE, none |-> TRUE, devices |-> <<>>, error |-> e]

\* Page numbers a request is modelled for.
MaxAsked == MaxPages + 1

\* A caller invokes get_devices(is_online): results and page default to None.
CallGetDevices ==
    /\ gd_pc = "idle"
    /\ gd_pc' = "active"
    /\ gd_page' = NoPage
    /\ gd_results' = <<>>
    /\ gd_depth' = 1
    /\ gd_fetches' = 0
    /\ gd_ret' = NoReturn
    /\ gd_reported' = NoPage
    /\ UNCHANGED <<srv_pages, srv_skew, httpVars, classifyVars, appVars, bulkVars, authVars, pvVars>>

\* One activation of get_devices, its page request answered with outcome o:
\* an error ends the call with (None, e); the last page ends it with the
\* list; any other page makes the activation return what the activation for
\* the next page returns.
GetDevices(o) ==
    LET resp_body == ResponseBody(PageParam(gd_page))
        pagination == resp_body.pagination
    IN
    /\ gd_pc = "active"
    /\ PageParam(gd_page) <= MaxAsked
    /\ gd_fetches' = gd_fetches + 1
    /\ IF o # "ok"
       THEN /\ gd_ret' = ErrorReturn(gd_results, o)
            /\ gd_pc' = "returned"
            /\ gd_depth' = 0
            /\ UNCHANGED <<gd_page, gd_results, gd_reported>>
       ELSE IF pagination.page = pagination.max
       THEN /\ gd_ret' = [returned |-> TRUE, none |-> FALSE,
                          devices |-> BaseCaseReturn(gd_results, resp_body.data),
                          error |-> "None"]
            /\ gd_pc' = "returned"
            /\ gd_depth' = 0
            /\ gd_reported' = pagination.page
            /\ UNCHANGED <<gd_page, gd_results>>
       ELSE /\ gd_results' = RecursiveResults(gd_results, resp_body.data)
            /\ gd_page' = NextPage(PageParam(gd_page), pagination.page)
            /\ gd_depth' = Nested(gd_depth)
            /\ gd_reported' = pagination.page
            /\ UNCHANGED <<gd_pc, gd_ret>>
    /\ UNCHANGED <<srv_pages, srv_skew, httpVars, classifyVars, appVars, bulkVars, authVars, pvVars>>

\* get_devices called once against any listing.
PagInit ==
    /\ HttpInit("none", {}, NoCap)
    /\ ClassifyIdle
    /\ AppIdle
    /\ BulkIdle
    /\ AuthIdle
    /\ PvIdle
    /\ srv_pages \in PageTables
    /\ srv_skew = 0
    /\ gd_reported = NoPage
    /\ gd_pc = "idle"
    /\ gd_page = NoPage
    /\ gd_results = <<>>
    /\ gd_depth = 0
    /\ gd_fetches = 0
    /\ gd_ret = NoReturn

PagNext ==
    \/ CallGetDevices
    \/ \E o \in {"ok"} \cup FetchErrors : GetDevices(o)

PagSpec == PagInit /\ [][PagNext]_vars

\* get_devices called once against any listing, served by a server that
\* reports the page asked for or the one after it; every page request is
\* answered.
PagProgressInit ==
    /\ HttpInit("none", {}, NoCap)
    /\ ClassifyIdle
    /\ AppIdle
    /\ BulkIdle
    /\ AuthIdle
    /\ PvIdle
    /\ srv_pages \in PageTables
    /\ srv_skew \in {0, 1}
    /\ gd_reported = NoPage
    /\ gd_pc = "idle"
    /\ gd_page = NoPage
    /\ gd_results = <<>>
    /\ gd_depth = 0
    /\ gd_fetches = 0
    /\ gd_ret = NoReturn

PagFairness ==
    /\ WF_vars(CallGetDevices)
    /\ WF_vars(\E o \in {"ok"} \cup FetchErrors : GetDevices(o))

PagProgressSpec == PagProgressInit /\ [][PagNext]_vars /\ PagFairness

\* ------------------------- MIPSClient.patch_backlight_and_validate_bulk
\* The devices lists of at most MaxTasks ids: one of distinct ids and one
\* repeating a single id for every length.
DeviceLists ==
    UNION {{[i \in 1..n |-> 110 + i], [i \in 1..n |-> 111]} : n \in 0..MaxTasks}

\* The submitted tasks: one per element of devices, in list order.
Tasks == 1..Len(devices)

\* (mutation: an omitted shadow_mode means production)
ShadowDefaultOff(arg) == IF arg = "None" THEN "False" ELSE arg

\* if shadow_mode is None: shadow_mode = True
ShadowDefault(arg) == IF arg = "None" THEN "True" ELSE arg

\* mode = SHADOW_MODE if shadow_mode else PROD_MODE
Mode == IF shadow_mode = "True" THEN "shadow" ELSE "production"

\* How patch_backlight_and_validate can end for an authenticated client and
\* a valid switch_status: in shadow mode it returns its result at once; in
\* production mode it returns a result with or without an error, or raises
\* (r.json() or int() of get_backlight_settings).
TaskOutcomes == IF shadow_mode = "True" THEN {"ok"} ELSE {"ok", "error", "raised"}

\* (mutation: the deadline is the timeout of one request)
GroupTimeoutPerRequest(n) == timeout

\* group_timeout = self.timeout * len(fs)
GroupTimeout(n) == timeout * n

\* The queue of the executor is FIFO: the work item a free thread takes is
\* the oldest one whose future is still pending.
Queued == {i \in Tasks : fstate[i] = "pending"}
NextQueued == CHOOSE i \in Queued : \A j \in Queued : i <= j

\* (mutation: a thread takes new work while it is still running a task)
FreeWorkersAny == {w \in TaskSlots : w <= th_cap}

\* Pool threads that can take a work item; the pool has at most
\* max_workers = th_cap threads.
FreeWorkers == {w \in TaskSlots : w <= th_cap /\ worker[w] = Idle}

Running == {i \in Tasks : fstate[i] = "running"}

\* (mutation: a cancelled future is still handed to a thread)
StartableCancelled(i) == fstate[i] \in {"pending", "cancelled"} /\ \A j \in Queued : i <= j

\* A work item runs only if its future is still pending.
Startable(i) == i \in Queued /\ i = NextQueued

\* ALL_COMPLETED: no future of fs is unfinished (none is cancelled before
\* the wait has returned).
AllCompleted == \A i \in Tasks : fstate[i] = "finished"

\* futures.wait returns when every future completed or the timeout elapsed.
WaitOver == AllCompleted \/ clock >= group_timeout

\* The first set futures.wait returns.
WaitDone == {i \in Tasks : fstate[i] = "finished"}

\* (mutation: unfinished futures are not reported)
WaitNotDoneDropped == {}

\* The second set futures.wait returns.
WaitNotDone == Tasks \ WaitDone

\* (mutation: no except clause around fut.result())
HandledWithoutExcept(o) == o \in {"ok", "error"}

\* Outcomes of a done future the loop turns into a result: a returned
\* result object, or an exception caught by "except Exception".  A task
\* skipped by MIPSTask.__call__ returns None, and res.end_ts = ts raises.
Handled(o) == o \in {"ok", "error", "raised"}

\* error field of the result a task returned
ReturnedError(o) == IF o = "ok" THEN "None" ELSE "Error"

\* BACKLIGHT_PARAM_TO_NAME[sw]
BacklightName(sw) == IF sw = 1 THEN "backlight_on" ELSE "backlight_off"

\* (mutation: the task builds its result in production mode whatever the
\* flag)
TaskModeProd(shadow) == "production"

\* mode of the result patch_backlight_and_validate builds when called with
\* the resolved flag shadow: PROD_MODE, replaced by SHADOW_MODE on the
\* shadow return.
TaskMode(shadow) == IF shadow = "True" THEN "shadow" ELSE "production"

\* (mutation: the timeout result keeps the instant the call began)
TimeoutResultStale(i, t) ==
    [task |-> i, device |-> devices[i], error |-> "TimeoutError",
     start_ts |-> 0, end_ts |-> t, mode |-> Mode,
     backlight_status |-> BacklightName(switch_status)]

\* The result appended for a future of timed_out; task is the future the
\* entry was appended for.
TimeoutResult(i, t) ==
    [task |-> i, device |-> devices[i], error |-> "TimeoutError",
     start_ts |-> t, end_ts |-> t, mode |-> Mode,
     backlight_status |-> BacklightName(switch_status)]

\* The result appended for a future of done: the placeholder built around
\* the exception it raised, or the result its task returned with end_ts
\* overwritten.
DoneResult(i, t) ==
    IF outcome[i] = "raised"
    THEN [task |-> i, device |-> devices[i], error |-> "Exception",
          start_ts |-> t, end_ts |-> t, mode |-> Mode,
          backlight_status |-> BacklightName(switch_status)]
    ELSE [task |-> i, device |-> devices[i], error |-> ReturnedError(outcome[i]),
          start_ts |-> started[i], end_ts |-> t, mode |-> TaskMode(shadow_mode),
          backlight_status |-> BacklightName(switch_status)]

\* The results the loop over the futures of set S appends at instant t.
DoneResults(S, t) == SetToBag({DoneResult(i, t) : i \in S})

\* Futures an entry of results was appended for.
Recorded == {r.task : r \in BagToSet(results)}

\* The call up to futures.wait: defaults resolved, one task per device
\* submitted in list order, the group deadline computed, the wait begun.
BulkCall ==
    /\ b_pc = "idle"
    /\ th_cap' = IF th_cap = NoThCap THEN DEFAULT_THREAD_COUNT ELSE th_cap
    /\ shadow_mode' = ShadowDefault(shadow_mode)
    /\ fstate' = [i \in TaskSlots |-> IF i \in Tasks THEN "pending" ELSE "none"]
    /\ group_timeout' = GroupTimeout(Len(devices))
    /\ clock' = 0
    /\ results' = EmptyBag
    /\ b_pc' = "waiting"
    /\ UNCHANGED <<bulkArgs, cancelled, outcome, started, worker, done, timed_out, ts,
                   cancelOk>>
    /\ UNCHANGED <<httpVars, classifyVars, appVars, pagVars, authVars, pvVars>>

\* A pool thread takes the next work item and calls the MIPSTask: a task
\* whose cancelled flag is set returns None at once, any other one starts
\* patch_backlight_and_validate, which stamps start_ts.
TaskStart(i) ==
    /\ b_pc \in {"waiting", "recording", "shutdown"}
    /\ Startable(i)
    /\ FreeWorkers # {}
    /\ LET w == CHOOSE v \in FreeWorkers : \A u \in FreeWorkers : v <= u
       IN IF cancelled[i]
          THEN /\ fstate' = [fstate EXCEPT ![i] = "finished"]
               /\ outcome' = [outcome EXCEPT ![i] = "skipped"]
               /\ UNCHANGED <<started, worker>>
          ELSE /\ fstate' = [fstate EXCEPT ![i] = "running"]
               /\ started' = [started EXCEPT ![i] = clock]
               /\ worker' = [worker EXCEPT ![w] = i]
               /\ UNCHANGED outcome
    /\ UNCHANGED <<b_pc, bulkArgs, th_cap, shadow_mode, group_timeout, clock, cancelled,
                   done, timed_out, ts, results, cancelOk>>
    /\ UNCHANGED <<httpVars, classifyVars, appVars, pagVars, authVars, pvVars>>

\* The operation of a running task ends with outcome o; its future is
\* finished and its thread is free again.
TaskFinish(i, o) ==
    /\ fstate[i] = "running"
    /\ o \in TaskOutcomes
    /\ fstate' = [fstate EXCEPT ![i] = "finished"]
    /\ outcome' = [outcome EXCEPT ![i] = o]
    /\ worker' = [w \in TaskSlots |-> IF worker[w] = i THEN Idle ELSE worker[w]]
    /\ UNCHANGED <<b_pc, bulkArgs, th_cap, shadow_mode, group_timeout, clock, cancelled,
                   started, done, timed_out, ts, results, cancelOk>>
    /\ UNCHANGED <<httpVars, classifyVars, appVars, pagVars, authVars, pvVars>>

\* A second passes while the call is blocked in futures.wait.
BulkTick ==
    /\ b_pc = "waiting"
    /\ ~WaitOver
    /\ clock' = clock + 1
    /\ UNCHANGED <<b_pc, bulkArgs, th_cap, shadow_mode, group_timeout, poolVars,
                   done, timed_out, ts, results, cancelOk>>
    /\ UNCHANGED <<httpVars, classifyVars, appVars, pagVars, authVars, pvVars>>

\* futures.wait returns its two sets, ts is taken and the loop over done
\* runs: one result per finished future, or the call raises on an outcome
\* the loop does not handle.
WaitReturn ==
    /\ b_pc = "waiting"
    /\ WaitOver
    /\ done' = WaitDone
    /\ timed_out' = WaitNotDone
    /\ ts' = clock
    /\ IF \A i \in WaitDone : Handled(outcome[i])
       THEN /\ results' = results (+) DoneResults(WaitDone, clock)
            /\ b_pc' = IF WaitNotDone = {} THEN "shutdown" ELSE "recording"
       ELSE /\ results' = results
            /\ b_pc' = "raised"
    /\ UNCHANGED <<bulkArgs, th_cap, shadow_mode, group_timeout, clock, poolVars, cancelOk>>
    /\ UNCHANGED <<httpVars, classifyVars, appVars, pagVars, authVars, pvVars>>

\* One iteration of the loop over timed_out: the timeout result is appended
\* and fut.cancel() is called, which cancels the future only if it is still
\* pending.  The with block is left after the last iteration.
TimeoutRecord(i) ==
    /\ b_pc = "recording"
    /\ i \in timed_out \ Recorded
    /\ results' = results (+) SetToBag({TimeoutResult(i, ts)})
    /\ IF fstate[i] = "pending"
       THEN /\ fstate' = [fstate EXCEPT ![i] = "cancelled"]
            /\ cancelOk' = cancelOk \cup {i}
       ELSE UNCHANGED <<fstate, cancelOk>>
    /\ b_pc' = IF timed_out \ Recorded = {i} THEN "shutdown" ELSE "recording"
    /\ UNCHANGED <<bulkArgs, th_cap, shadow_mode, group_timeout, clock, cancelled, outcome,
                   started, worker, done, timed_out, ts>>
    /\ UNCHANGED <<httpVars, classifyVars, appVars, pagVars, authVars, pvVars>>

\* (mutation: the executor is shut down with wait=False)
ShutdownOverNoWait == TRUE

\* ThreadPoolExecutor.__exit__ is shutdown(wait=True): it returns when the
\* queue is drained and every pool thread has ended.
ShutdownOver == Queued = {} /\ Running = {}

\* The with block is left and the call returns results.
BulkReturn ==
    /\ b_pc = "shutdown"
    /\ ShutdownOver
    /\ b_pc' = "returned"
    /\ UNCHANGED <<bulkArgs, th_cap, shadow_mode, group_timeout, clock, poolVars,
                   done, timed_out, ts, results, cancelOk>>
    /\ UNCHANGED <<httpVars, classifyVars, appVars, pagVars, authVars, pvVars>>

\* One bulk call of any arguments by a client of any timeout.
BulkInit ==
    /\ HttpInit("none", {}, NoCap)
    /\ ClassifyIdle
    /\ AppIdle
    /\ PagIdle
    /\ AuthIdle
    /\ PvIdle
    /\ \E tmo \in 1..MaxTimeout, dev \in DeviceLists,
          cap \in {NoThCap} \cup (1..MaxWorkers), shadow \in {"None", "True", "False"} :
          BulkInitially(tmo, dev, cap, shadow)

BulkNext ==
    \/ BulkCall
    \/ \E i \in TaskSlots : TaskStart(i)
    \/ \E i \in TaskSlots, o \in {"ok", "error", "raised"} : TaskFinish(i, o)
    \/ BulkTick
    \/ WaitReturn
    \/ \E i \in TaskSlots : TimeoutRecord(i)
    \/ BulkReturn

BulkSpec == BulkInit /\ [][BulkNext]_vars

\* The orchestrating thread and the pool threads are scheduled and time
\* passes; nothing makes the operation of a running task end.
BulkFairness ==
    /\ WF_vars(BulkTick)
    /\ WF_vars(WaitReturn)
    /\ WF_vars(\E i \in TaskSlots : TimeoutRecord(i))
    /\ WF_vars(BulkReturn)
    /\ WF_vars(\E i \in TaskSlots : TaskStart(i))

BulkLiveSpec == BulkSpec /\ BulkFairness

\* One bulk call of either switch_status with an explicit worker cap and
\* shadow flag, by an authenticated client.
UniformInit ==
    /\ HttpInit("none", {}, NoCap)
    /\ ClassifyIdle
    /\ AppIdle
    /\ PagIdle
    /\ AuthIdle
    /\ \E status \in SwitchStatuses : PvInitially(111, status, "None")
    /\ \E tmo \in 1..MaxTimeout, dev \in DeviceLists,
          cap \in 1..MaxWorkers, shadow \in {"True", "False"} :
          BulkInitially(tmo, dev, cap, shadow)

UniformSpec == UniformInit /\ [][BulkNext]_vars

\* ------------------------------------- MIPSClient.auth and needs_auth
\* Thread t calls a method decorated with needs_auth: the wrapper reads
\* __ok_auth and either goes on to the method or calls auth(), which sends
\* the authentication request.
NeedsAuth(t) ==
    /\ a_pc[t] = "idle"
    /\ a_pc' = [a_pc EXCEPT ![t] = IF ok_auth THEN "method" ELSE "auth"]
    /\ UNCHANGED <<ok_auth, cookies>>
    /\ UNCHANGED <<httpVars, classifyVars, appVars, pagVars, bulkVars, pvVars>>

\* The authentication request of thread t ends with outcome o: auth() sets
\* self.__ok_auth = True and goes on to replace the cookies, or
\* make_request raises through auth() and the wrapper (_make_request
\* classifies with the override of response_to_exception, so the
\* InvalidAUTHError is raised there too and auth() never returns an error).
AuthDone(t, o) ==
    /\ a_pc[t] = "auth"
    /\ IF o = "ok"
       THEN /\ ok_auth' = TRUE
            /\ a_pc' = [a_pc EXCEPT ![t] = "cookies"]
       ELSE /\ ok_auth' = ok_auth
            /\ a_pc' = [a_pc EXCEPT ![t] = "idle"]
    /\ UNCHANGED cookies
    /\ UNCHANGED <<httpVars, classifyVars, appVars, pagVars, bulkVars, pvVars>>

\* self.sesh.cookies = r.cookies, then the wrapper calls the method.
SetCookies(t) ==
    /\ a_pc[t] = "cookies"
    /\ cookies' = t
    /\ a_pc' = [a_pc EXCEPT ![t] = "method"]
    /\ UNCHANGED ok_auth
    /\ UNCHANGED <<httpVars, classifyVars, appVars, pagVars, bulkVars, pvVars>>

\* The decorated method of thread t returns.
MethodDone(t) ==
    /\ a_pc[t] = "method"
    /\ a_pc' = [a_pc EXCEPT ![t] = "idle"]
    /\ UNCHANGED <<ok_auth, cookies>>
    /\ UNCHANGED <<httpVars, classifyVars, appVars, pagVars, bulkVars, pvVars>>

\* Threads sharing one MIPSClient built with auto_auth True (it left the
\* constructor authenticated) or False (it has not authenticated yet).
AuthInit ==
    /\ HttpInit("none", {}, NoCap)
    /\ ClassifyIdle
    /\ AppIdle
    /\ PagIdle
    /\ BulkIdle
    /\ PvIdle
    /\ ok_auth \in BOOLEAN
    /\ cookies = NoThread
    /\ a_pc = [t \in Threads |-> "idle"]

AuthNext ==
    \/ \E t \in Threads : NeedsAuth(t)
    \/ \E t \in Threads, o \in {"ok"} \cup FetchErrors : AuthDone(t, o)
    \/ \E t \in Threads : SetCookies(t)
    \/ \E t \in Threads : MethodDone(t)

AuthSpec == AuthInit /\ [][AuthNext]_vars

\* MIPSClient.response_to_exception, the override _make_request calls
\* through self: js tells whether r.text holds JS_NEEDED_SUBSTRING.
mips_response_to_exception(s, js) ==
    IF s = 200 THEN (IF js THEN "InvalidAUTHError" ELSE "None")
    ELSE IF 400 <= s /\ s < 500 THEN "ClientError"
    ELSE IF 500 <= s /\ s < 600 THEN "ServerError"
    ELSE "UnexpectedStatusCodeError"

\* auth() or the decorated method of thread t calls make_request.
MipsMakeRequest(t) ==
    /\ a_pc[t] \in {"auth", "method"}
    /\ MakeRequest(t, IF a_pc[t] = "auth" THEN "POST" ELSE "GET")

\* One attempt of a request of the MIPS client: the send is counted.
MipsSend(t, o, js) ==
    /\ SendAs(t, o, mips_response_to_exception(o, js))
    /\ sends' = [sends EXCEPT ![t] = @ + 1]
    /\ UNCHANGED <<seCount, first, last, logged>>

\* make_request of auth() is over: on a response auth() sets
\* self.__ok_auth = True and goes on to the cookies, on an exception the
\* wrapper lets it through to the caller of the method.
AuthFinish(t) ==
    /\ a_pc[t] = "auth"
    /\ Returned(t)
    /\ IF result[t].kind = "response"
       THEN /\ ok_auth' = TRUE
            /\ a_pc' = [a_pc EXCEPT ![t] = "cookies"]
       ELSE /\ ok_auth' = ok_auth
            /\ a_pc' = [a_pc EXCEPT ![t] = "idle"]
    /\ UNCHANGED cookies
    /\ UNCHANGED <<classifyVars, appVars, pagVars, bulkVars, pvVars>>

\* make_request of the decorated method is over and the method returns what
\* it got to its caller.
MethodFinish(t) ==
    /\ a_pc[t] = "method"
    /\ Returned(t)
    /\ a_pc' = [a_pc EXCEPT ![t] = "idle"]
    /\ UNCHANGED <<ok_auth, cookies>>
    /\ UNCHANGED <<classifyVars, appVars, pagVars, bulkVars, pvVars>>

\* Two threads calling decorated methods of one MIPSClient without limiter,
\* built with auto_auth True or False, against an endpoint that answers
\* anything.
MipsCallInit ==
    /\ HttpInit("none", {}, NoCap)
    /\ ClassifyIdle
    /\ AppIdle
    /\ PagIdle
    /\ BulkIdle
    /\ PvIdle
    /\ ok_auth \in BOOLEAN
    /\ cookies = NoThread
    /\ a_pc = [t \in Threads |-> "idle"]

MipsCallNext ==
    \/ \E t \in Pair : NeedsAuth(t)
    \/ \E t \in Pair : MipsMakeRequest(t)
    \/ \E t \in Pair, o \in Outcomes, js \in BOOLEAN : MipsSend(t, o, js)
    \/ \E t \in Pair : BackoffSleep(t)
    \/ \E t \in Pair : AuthFinish(t)
    \/ \E t \in Pair : SetCookies(t)
    \/ \E t \in Pair : MethodFinish(t)

MipsCallSpec == MipsCallInit /\ [][MipsCallNext]_vars

\* ------------------------- MIPSClient.patch_backlight_and_validate
\* The ids of the devices patched.
DeviceIds == {111, 112, 122}

\* switch_status arguments, one of them not a key of BACKLIGHT_PARAM_TO_NAME,
\* and the statuses a device reports.
StatusArgs == {0, 1, 2}

\* How get_backlight_settings ends besides a status and a fetch error: the
\* body lacks BACKLIGHT_STATUS_KEY, or r.json() / int() raises.
GetOutcomes == {"ok", "NoKey", "BadBody"} \cup FetchErrors

\* (mutation: the fetched status is not compared)
ValidatedAlways(bl, sw) == TRUE

\* not (bl_status != switch_status)
Validated(bl, sw) == bl = sw

\* patch_backlight_and_validate up to the PUT of patch_backlight: the
\* default of shadow_mode, the result record (BACKLIGHT_PARAM_TO_NAME
\* [switch_status] raises KeyError), the shadow return, and in production
\* mode the call of patch_backlight, which sends the PUT.
PatchBacklightAndValidate ==
    LET shadow == ShadowDefault(pv_shadow) IN
    /\ pv_pc = "idle"
    /\ pv_shadow' = shadow
    /\ IF switch_status \notin SwitchStatuses
       THEN /\ pv_pc' = "raised"
            /\ pv_result' = pv_result
       ELSE IF shadow = "True"
       THEN /\ pv_pc' = "returned"
            /\ pv_result' = [device |-> device_id, error |-> "None", mode |-> "shadow"]
       ELSE /\ pv_pc' = "put"
            /\ pv_result' = [device |-> device_id, error |-> "None", mode |-> "production"]
    /\ UNCHANGED <<device_id, switch_status, pv_put, pv_get, bl_status>>
    /\ UNCHANGED <<httpVars, classifyVars, appVars, pagVars, bulkVars, authVars>>

\* patch_backlight returns None (o = "ok") or the exception of its PUT;
\* on an error the result is returned with it, else
\* get_backlight_settings sends the GET.
PutDone(o) ==
    /\ pv_pc = "put"
    /\ pv_put' = o
    /\ IF o = "ok"
       THEN /\ pv_pc' = "get"
            /\ pv_result' = pv_result
       ELSE /\ pv_pc' = "returned"
            /\ pv_result' = [pv_result EXCEPT !.error = o]
    /\ UNCHANGED <<device_id, switch_status, pv_shadow, pv_get, bl_status>>
    /\ UNCHANGED <<httpVars, classifyVars, appVars, pagVars, bulkVars, authVars>>

\* get_backlight_settings returns status s (o = "ok"), or the exception of
\* its GET, or a ValueError for a body without the status key, or raises out
\* of r.json() / int(); then the comparison with switch_status.
GetDone(o, s) ==
    /\ pv_pc = "get"
    /\ pv_get' = o
    /\ IF o = "BadBody"
       THEN /\ pv_pc' = "raised"
            /\ bl_status' = bl_status
            /\ pv_result' = pv_result
       ELSE IF o = "ok"
       THEN /\ pv_pc' = "returned"
            /\ bl_status' = s
            /\ pv_result' = [pv_result EXCEPT !.error =
                               IF Validated(s, switch_status) THEN "None"
                               ELSE "ValidationError"]
       ELSE /\ pv_pc' = "returned"
            /\ bl_status' = bl_status
            /\ pv_result' = [pv_result EXCEPT !.error =
                               IF o = "NoKey" THEN "ValueError" ELSE o]
    /\ UNCHANGED <<device_id, switch_status, pv_shadow, pv_put>>
    /\ UNCHANGED <<httpVars, classifyVars, appVars, pagVars, bulkVars, authVars>>

\* One call patch_backlight_and_validate(device_id, switch_status,
\* shadow_mode) on an authenticated client.
PvInit ==
    /\ HttpInit("none", {}, NoCap)
    /\ ClassifyIdle
    /\ AppIdle
    /\ PagIdle
    /\ BulkIdle
    /\ AuthIdle
    /\ \E dev \in DeviceIds, status \in StatusArgs, shadow \in {"None", "True", "False"} :
          PvInitially(dev, status, shadow)

PvNext ==
    \/ PatchBacklightAndValidate
    \/ \E o \in {"ok"} \cup FetchErrors : PutDone(o)
    \/ \E o \in GetOutcomes, s \in StatusArgs : GetDone(o, s)

PvSpec == PvInit /\ [][PvNext]_vars

\* One call of patch_backlight_and_validate and one bulk call, both in
\* shadow mode (asked for or by default), by an authenticated client.
ShadowInit ==
    /\ HttpInit("none", {}, NoCap)
    /\ ClassifyIdle
    /\ AppIdle
    /\ PagIdle
    /\ AuthIdle
    /\ \E dev \in DeviceIds, status \in SwitchStatuses, shadow \in {"None", "True"} :
          PvInitially(dev, status, shadow)
    /\ \E tmo \in 1..MaxTimeout, dev \in DeviceLists,
          cap \in {NoThCap} \cup (1..MaxWorkers), shadow \in {"None", "True"} :
          BulkInitially(tmo, dev, cap, shadow)

\* The steps of the two calls in shadow mode.  A task is then a log call
\* and a return, so every future completes within the second in which the
\* wait began: the clock of the bulk call does not advance.
ShadowNext ==
    \/ PatchBacklightAndValidate
    \/ BulkCall
    \/ \E i \in TaskSlots : TaskStart(i)
    \/ \E i \in TaskSlots, o \in {"ok", "error", "raised"} : TaskFinish(i, o)
    \/ WaitReturn
    \/ BulkReturn

ShadowSpec == ShadowInit /\ [][ShadowNext]_vars

\* --------------------------- App.execute_tasks and App.patch_backlight
\* What the other subsystems do while the app runs is not followed here.
WfFrame == UNCHANGED <<httpVars, classifyVars, mipsVars, shVars, tgVars, rowVars,
                       loopVars>>

\* execute_tasks submits the workflows of the enabled rows: each starts on
\* its own pool thread, builds its WorkflowResult and calls get_devices.
Submit ==
    /\ et_pc = "idle"
    /\ et_pc' = "collecting"
    /\ wf_pc' = [w \in Workflows |-> "fetch"]
    /\ UNCHANGED <<wf_fetch, wf_error, wf_sent, et_results>>
    /\ WfFrame

\* devices, e = get_devices(); log.info("fetched %s devices", len(devices)):
\* on an error devices is None and len(None) raises TypeError before the
\* check of e is reached.
AfterFetch(o) == IF o = "ok" THEN "bulk" ELSE "raised"

\* get_devices of workflow w returns the devices (o = "ok") or (None, e).
WfFetch(w, o) ==
    /\ wf_pc[w] = "fetch"
    /\ wf_fetch' = [wf_fetch EXCEPT ![w] = o]
    /\ wf_pc' = [wf_pc EXCEPT ![w] = AfterFetch(o)]
    /\ wf_error' = [wf_error EXCEPT ![w] =
                       IF AfterFetch(o) = "returned" THEN "WorkflowError" ELSE @]
    /\ UNCHANGED <<wf_sent, et_pc, et_results>>
    /\ WfFrame

\* patch_backlight_and_validate_bulk returns its results; the errors of
\* single devices are in them, not in the WorkflowResult.
WfBulk(w) ==
    /\ wf_pc[w] = "bulk"
    /\ wf_pc' = [wf_pc EXCEPT ![w] = "append"]
    /\ UNCHANGED <<wf_fetch, wf_error, wf_sent, et_pc, et_results>>
    /\ WfFrame

\* The notifications sent after sheets.append_data returned o: the error
\* message inside "if e is not None", then the success message, which no
\* branch guards.
Notified(o) == IF o = "ok" THEN {"success"} ELSE {"error", "success"}

\* sheets.append_data of workflow w returns o, result.error is set on an
\* error, the notifications are sent and the workflow returns its result;
\* send_message raises TooManyRequestsError when tg says so, and then the
\* first notification is the last thing the workflow does.
WfAppend(w, o, tg) ==
    /\ wf_pc[w] = "append"
    /\ wf_error' = [wf_error EXCEPT ![w] = IF o = "ok" THEN @ ELSE "WorkflowError"]
    /\ IF tg = "raised"
       THEN /\ wf_sent' = [wf_sent EXCEPT ![w] =
                              IF "error" \in Notified(o) THEN {"error"} ELSE {"success"}]
            /\ wf_pc' = [wf_pc EXCEPT ![w] = "raised"]
       ELSE /\ wf_sent' = [wf_sent EXCEPT ![w] = Notified(o)]
            /\ wf_pc' = [wf_pc EXCEPT ![w] = "returned"]
    /\ UNCHANGED <<wf_fetch, et_pc, et_results>>
    /\ WfFrame

WfOver(w) == wf_pc[w] \in {"returned", "raised"}

\* results = [fut.result() for fut in futures.as_completed(workflows)] with
\* no try around it, then the with block is left and the results are
\* appended to the log sheet: a workflow that raised makes fut.result()
\* raise out of execute_tasks.
Collect ==
    /\ et_pc = "collecting"
    /\ \A w \in Workflows : WfOver(w)
    /\ IF \E w \in Workflows : wf_pc[w] = "raised"
       THEN /\ et_pc' = "raised"
            /\ et_results' = et_results
       ELSE /\ et_pc' = "appended"
            /\ et_results' = Workflows
    /\ UNCHANGED <<wf_pc, wf_fetch, wf_error, wf_sent>>
    /\ WfFrame

WorkflowInit ==
    /\ HttpInit("none", {}, NoCap)
    /\ ClassifyIdle
    /\ MipsIdle
    /\ AppIdle

WorkflowNext ==
    \/ Submit
    \/ \E w \in Workflows, o \in {"ok"} \cup FetchErrors : WfFetch(w, o)
    \/ \E w \in Workflows : WfBulk(w)
    \/ \E w \in Workflows, o \in {"ok", "error"}, tg \in {"ok", "raised"} : WfAppend(w, o, tg)
    \/ Collect

WorkflowSpec == WorkflowInit /\ [][WorkflowNext]_vars

\* ------------------------------- GoogleSheetsGateway._make_request
ShFrame == UNCHANGED <<httpVars, classifyVars, mipsVars, wfVars, tgVars, rowVars,
                       loopVars>>

\* Request types a caller may pass: read, write and one that is neither.
ReqTypes == {R_REQUEST, W_REQUEST, R_REQUEST + W_REQUEST}

\* What req.execute() ends with: a response (200), an HttpError of the
\* status, or another exception (NoResponse).
SheetOutcomes == {200, 403, 404, 500, 503, NoResponse}

\* (mutation: every HttpError triggers a retry)
SheetRetriedAny(o) == o \notin {200, NoResponse}

\* if 500 <= e.resp.status < 600: raise GoogleSheetRetriableError
SheetRetried(o) == 500 <= o /\ o < 600

\* The limiter _make_request selects by req_type.
SheetLimiter(ty) ==
    IF ty = R_REQUEST THEN "read" ELSE IF ty = W_REQUEST THEN "write" ELSE "none"

\* _make_request up to the call of __make_request: the limiter is selected
\* or the ValueError tuple is returned.
ShCall ==
    /\ sh_pc = "idle"
    /\ IF SheetLimiter(sh_type) = "none"
       THEN /\ sh_pc' = "returned"
            /\ sh_ret' = [resp |-> "None", err |-> "ValueError"]
       ELSE /\ sh_pc' = "attempt"
            /\ sh_ret' = sh_ret
    /\ UNCHANGED <<sh_type, sh_entered, sh_attempts, sh_seen>>
    /\ ShFrame

\* One attempt of __make_request, then what the retry decorator and the
\* except clauses of _make_request make of it: "with rps_limiter:" is
\* entered, req.execute() ends with o; a response is returned; a 5xx
\* HttpError is retried after the backoff sleep until tries are used up,
\* when the GoogleSheetRetriableError is returned; any other exception is
\* returned at once.
ShAttempt(o) ==
    /\ sh_pc = "attempt"
    /\ sh_entered' = sh_entered \cup {SheetLimiter(sh_type)}
    /\ sh_attempts' = sh_attempts + 1
    /\ sh_seen' = sh_seen \cup {o}
    /\ IF o = 200
       THEN /\ sh_pc' = "returned"
            /\ sh_ret' = [resp |-> "response", err |-> "None"]
       ELSE IF o # NoResponse /\ SheetRetried(o)
       THEN IF sh_attempts + 1 = SheetTries
            THEN /\ sh_pc' = "returned"
                 /\ sh_ret' = [resp |-> "None", err |-> "GoogleSheetRetriableError"]
            ELSE /\ sh_pc' = "attempt"
                 /\ sh_ret' = sh_ret
       ELSE /\ sh_pc' = "returned"
            /\ sh_ret' = [resp |-> "None",
                          err |-> IF o = NoResponse THEN "Exception" ELSE "HttpError"]
    /\ UNCHANGED sh_type
    /\ ShFrame

SheetInit ==
    /\ HttpInit("none", {}, NoCap)
    /\ ClassifyIdle
    /\ MipsIdle
    /\ WfIdle
    /\ TgIdle
    /\ RowsIdle
    /\ LoopIdle
    /\ \E ty \in ReqTypes : ShInitially(ty)

SheetNext ==
    \/ ShCall
    \/ \E o \in SheetOutcomes : ShAttempt(o)

SheetSpec == SheetInit /\ [][SheetNext]_vars

\* ------------------------------------- TelegramGateway.send_message
TgFrame == UNCHANGED <<httpVars, classifyVars, mipsVars, wfVars, shVars, rowVars,
                       loopVars>>

MaxRetryAfter == 2       \* largest retry_after the API sends, in seconds

\* What make_request of one attempt ends with: a response (200), the
\* exception of a status (a 5xx one after the retries of _make_request), or
\* another exception (NoResponse: transport failure, or a 429 body without
\* parameters.retry_after).
TgOutcomes == {200, 403, 404, 429, 500, 503, NoResponse}

\* (mutation: the decorator retries on every client error)
TgRetriedClient(o) == 400 <= o /\ o < 500

\* Attempts that end with TooManyRequestsError, which send_message
\* re-raises into retry.retry(exceptions=(TooManyRequestsError,)).
TgRetried(o) == o = 429

\* e.sleep_for = int(data["parameters"]["retry_after"])
SleepFor(ra) == ra

\* if is_log is None: is_log = False
TgCall ==
    /\ tg_pc = "idle"
    /\ tg_pc' = "attempt"
    /\ tg_is_log' = IF tg_is_log = "None" THEN "False" ELSE tg_is_log
    /\ UNCHANGED <<tg_attempts, tg_seen, tg_asked, tg_slept, tg_ret>>
    /\ TgFrame

\* One attempt of send_message and what the retry decorator makes of it:
\* make_request ends with o (a 429 answer carrying retry_after = ra); on
\* success the call returns None; on TooManyRequestsError it sleeps
\* e.sleep_for and re-raises, which the decorator answers with its own
\* sleep and another attempt, or lets through when the tries are used up;
\* any other exception is returned.
TgAttempt(o, ra) ==
    /\ tg_pc = "attempt"
    /\ tg_attempts' = tg_attempts + 1
    /\ tg_seen' = tg_seen \cup {o}
    /\ IF o = 200
       THEN /\ tg_pc' = "returned"
            /\ tg_ret' = "None"
            /\ UNCHANGED <<tg_asked, tg_slept>>
       ELSE IF o # NoResponse /\ TgRetried(o)
       THEN /\ tg_asked' = Append(tg_asked, ra)
            /\ tg_slept' = Append(tg_slept, SleepFor(ra))
            /\ tg_ret' = tg_ret
            /\ tg_pc' = IF tg_attempts + 1 = TgTries THEN "raised" ELSE "attempt"
       ELSE /\ tg_pc' = "returned"
            /\ tg_ret' = "error"
            /\ UNCHANGED <<tg_asked, tg_slept>>
    /\ UNCHANGED tg_is_log
    /\ TgFrame

TgInit ==
    /\ HttpInit("none", {}, NoCap)
    /\ ClassifyIdle
    /\ MipsIdle
    /\ WfIdle
    /\ ShIdle
    /\ RowsIdle
    /\ LoopIdle
    /\ \E is_log \in {"None", "True", "False"} : TgInitially(is_log)

TgNext ==
    \/ TgCall
    \/ \E o \in TgOutcomes, ra \in 1..MaxRetryAfter : TgAttempt(o, ra)

TgSpec == TgInit /\ [][TgNext]_vars

\* --------------------------------- GoogleSheetsGateway.append_data
RowFrame == UNCHANGED <<httpVars, classifyVars, mipsVars, wfVars, shVars, tgVars,
                       loopVars>>

MaxRowLimit == 2         \* largest row_limit
MaxNewRows == 3          \* most rows one call appends
MaxAppends == 3          \* calls of append_data followed

\* _compute_number_of_rows_to_drop
ToDelete(current_len, new_len, limit) ==
    IF current_len + new_len > limit THEN current_len + new_len - limit ELSE 0

\* batch_ops: the deleteDimension of rows [1, to_delete + 1) when there is
\* something to delete, then the appendCells.
BatchOps(to_delete) ==
    IF to_delete > 0 THEN <<"deleteDimension", "appendCells">> ELSE <<"appendCells">>

\* The data rows left by a deleteDimension of d rows below the header: the
\* oldest d are gone, all of them when there are no more than d.
AfterDelete(rows, d) ==
    IF d >= Len(rows) THEN <<>> ELSE SubSeq(rows, d + 1, Len(rows))

\* append_data(data of n rows): the tab is read, to_delete is computed and
\* the batch is sent.  The batch is applied as a whole (ok) or not at all
\* (a failed read or batch_update: the error is returned).
AppendData(n, ok) ==
    LET c == Len(sheet_rows)
        d == ToDelete(c, n, row_limit)
        kept == AfterDelete(sheet_rows, d)
    IN
    /\ ap_count < MaxAppends
    /\ ap_count' = ap_count + 1
    /\ ap_last' = [c |-> c, n |-> n, to_delete |-> d, ops |-> BatchOps(d),
                   removed |-> IF ok THEN c - Len(kept) ELSE 0, applied |-> ok]
    /\ sheet_rows' = IF ok THEN kept \o [k \in 1..n |-> ap_count + 1] ELSE sheet_rows
    /\ UNCHANGED row_limit
    /\ RowFrame

\* A tab that is empty or already full of older rows, and any limit.
RowInit ==
    /\ HttpInit("none", {}, NoCap)
    /\ ClassifyIdle
    /\ MipsIdle
    /\ WfIdle
    /\ ShIdle
    /\ TgIdle
    /\ LoopIdle
    /\ \E lim \in 1..MaxRowLimit : \E c \in {0, lim} :
          RowsInitially([k \in 1..c |-> 0], lim)

RowNext == \E n \in 0..MaxNewRows, ok \in BOOLEAN : AppendData(n, ok)

RowSpec == RowInit /\ [][RowNext]_vars

\* ------------------------------------------------------------ main.py: the loop
\* Times are in units of 0.01 s, the resolution TimerContext rounds elapsed to,
\* so round(sleep_between_runs - elapsed, 2) is the plain difference.
LoopFrame == UNCHANGED <<httpVars, classifyVars, mipsVars, wfVars, shVars, tgVars,
                         rowVars>>

MaxElapsed == 3          \* longest iteration of main() followed
MaxSleepBetween == 2     \* largest sleep_between_runs configured
MaxIterations == 3       \* iterations of the loop followed
Envs == {DEV_ENV, "production"}
\* How main() ends: it returns, it raises an Exception (execute_tasks returned
\* an error, or anything else), or the user interrupts it.
MainOutcomes == {"ok", "Exception", "KeyboardInterrupt"}

\* What the finally block still re-raises: except Exception handles an
\* Exception, a KeyboardInterrupt is not one and stays pending.
Pending(o) == IF o = "KeyboardInterrupt" THEN o ELSE "none"

\* round(setup.app_config.sleep_between_runs - custom_timer.elapsed, 2)
ToSleep(sbr, elapsed) == sbr - elapsed

\* with timer.TimerContext() as custom_timer: main() -- __exit__ records
\* elapsed however main() ends and lets the exception through.
MainRun(o, elapsed) ==
    /\ lp_pc = "main"
    /\ lp_iterations < MaxIterations
    /\ lp_elapsed' = elapsed
    /\ lp_pending' = Pending(o)
    /\ lp_iterations' = lp_iterations + 1
    /\ lp_pc' = "finally"
    /\ UNCHANGED <<lp_env, sleep_between_runs, lp_slept, lp_end>>
    /\ LoopFrame

\* The finally block up to the call of time.sleep: the break in development
\* (which also drops a pending exception), or time.sleep(to_sleep), which
\* raises ValueError for a negative argument; the ValueError replaces what
\* was pending and except KeyboardInterrupt does not catch it.
Finally ==
    /\ lp_pc = "finally"
    /\ IF lp_env = DEV_ENV
       THEN /\ lp_pc' = "ended"
            /\ lp_end' = "break"
            /\ lp_pending' = "none"
            /\ UNCHANGED lp_slept
       ELSE LET to_sleep == ToSleep(sleep_between_runs, lp_elapsed) IN
            /\ lp_slept' = to_sleep
            /\ IF to_sleep < 0
               THEN /\ lp_pc' = "ended"
                    /\ lp_end' = "ValueError"
                    /\ lp_pending' = "none"
               ELSE /\ lp_pc' = "sleep"
                    /\ UNCHANGED <<lp_end, lp_pending>>
    /\ UNCHANGED <<lp_env, sleep_between_runs, lp_elapsed, lp_iterations>>
    /\ LoopFrame

\* time.sleep returns, or the user interrupts it; after the finally block the
\* pending KeyboardInterrupt is re-raised. except KeyboardInterrupt: break.
SleepDone(interrupted) ==
    /\ lp_pc = "sleep"
    /\ IF interrupted \/ lp_pending = "KeyboardInterrupt"
       THEN /\ lp_pc' = "ended"
            /\ lp_end' = "KeyboardInterrupt"
            /\ lp_pending' = "none"
       ELSE /\ lp_pc' = "main"
            /\ UNCHANGED <<lp_end, lp_pending>>
    /\ UNCHANGED <<lp_env, sleep_between_runs, lp_elapsed, lp_slept, lp_iterations>>
    /\ LoopFrame

LoopInit ==
    /\ HttpInit("none", {}, NoCap)
    /\ ClassifyIdle
    /\ MipsIdle
    /\ WfIdle
    /\ ShIdle
    /\ TgIdle
    /\ RowsIdle
    /\ \E env \in Envs, sbr \in 1..MaxSleepBetween : LoopInitially(env, sbr)

LoopNext ==
    \/ \E o \in MainOutcomes, elapsed \in 0..MaxElapsed : MainRun(o, elapsed)
    \/ Finally
    \/ \E interrupted \in BOOLEAN : SleepDone(interrupted)

LoopSpec == LoopInit /\ [][LoopNext]_vars

\* ------------------------------------------------------------ properties
\* Threads of limiter l that passed its semaphore acquire (or need none) and
\* have not yet run __exit__.
Entered(l) == {t \in Threads : limiter[t] = l /\ pc[t] \in {"lock", "sleeping", "send"}}

\* Threads of limiter l between reading last_request_time and storing it.
Pacing(l) == {t \in Threads : limiter[t] = l /\ pc[t] = "sleeping"}

\* C1: on every limiter any two successive proceed instants are at least
\* interval_ms apart, and at most one thread at a time is between reading
\* last_request_time and storing it.
SpacingInvariant ==
    \A l \in LimiterIds :
        /\ lastGap[l] = -1 \/ lastGap[l] >= IntervalMs
        /\ Cardinality(Pacing(l)) <= 1

\* C1 witness: two proceeds have happened on the blanket limiter while one
\* thread paces and another waits for the rate lock.
SpacingWitness ==
    /\ lastGap["base"] >= IntervalMs
    /\ \E t, u \in Threads : pc[t] = "sleeping" /\ pc[u] = "lock"

\* C2: on a limiter built with concurrent_requests = C at most C threads are
\* between the semaphore acquire of __enter__ and __exit__.
ConcurrencyCap ==
    \A l \in LimiterIds :
        Capped(l) => Cardinality(Entered(l)) <= concurrent_requests[l]

\* C2 witness: the cap is reached, below the number of threads, and a thread
\* waits for a slot.
ConcurrencyCapWitness ==
    /\ Capped("base")
    /\ Cardinality(Entered("base")) = concurrent_requests["base"]
    /\ \E t \in Threads : pc[t] = "sem"

\* C3: whenever no thread is inside a capped limiter, all of its
\* concurrent_requests slots are free, whatever the earlier sends did
\* (returned any status, or raised).
ScopedRelease ==
    \A l \in LimiterIds :
        (Capped(l) /\ Entered(l) = {}) => sem[l] = concurrent_requests[l]

\* C3 witness: a send has just raised inside the capped limiter, another
\* call ended after its retries, and nobody is inside.
ScopedReleaseWitness ==
    /\ Capped("base")
    /\ Entered("base") = {}
    /\ \E t, u \in Threads :
          /\ pc[t] = "done" /\ result[t].kind = "TransportError"
          /\ pc[u] = "done" /\ result[u].kind = "ServerError"

\* The threads followed when progress is checked: at most three.
Trio == {t \in Threads : t <= 3}

LiveNext ==
    \/ \E t \in Trio : MakeRequest(t, "GET")
    \/ \E t \in Trio : SemAcquire(t)
    \/ \E t \in Trio : LockAcquire(t)
    \/ \E t \in Trio : Proceed(t)
    \/ \E t \in Trio, o \in FinalOutcomes : SendUntraced(t, o)
    \/ \E t \in Trio : Return(t)
    \/ Tick

\* A step of thread t inside the limiter or its guarded body, up to __exit__.
LimiterStep(t) ==
    \/ SemAcquire(t)
    \/ LockAcquire(t)
    \/ Proceed(t)
    \/ \E o \in FinalOutcomes : SendUntraced(t, o)

\* The scheduling C4 assumes: the clock runs; a thread whose next step is
\* possible again and again takes it, which makes the granting of the lock
\* and of the semaphore fair to every waiter and makes a thread inside the
\* guarded section leave it.  Nothing makes a thread start a call.
Fairness ==
    /\ WF_vars(Tick)
    /\ \A t \in Trio : SF_vars(LimiterStep(t))

LiveSpec == Init /\ [][LiveNext]_vars /\ Fairness

\* C4: under Fairness every thread that has called __enter__ (it waits for
\* the semaphore or for the rate lock) eventually proceeds into the guarded
\* body.
AcquireLiveness ==
    \A t \in Threads : (pc[t] \in {"sem", "lock"}) ~> (pc[t] = "send")

\* C4 witness: a thread waits for a slot of a capped limiter while every slot
\* is taken and the rate lock is held.
AcquireLivenessWitness ==
    /\ Capped("base")
    /\ sem["base"] = 0
    /\ rps_lock["base"] # Unlocked
    /\ \E t \in Threads : pc[t] = "sem"

\* C5: response_to_exception maps 200 to no exception, 400..499 to
\* ClientError, 500..599 to ServerError and every other status code to
\* UnexpectedStatusCodeError.
ClassificationTotality ==
    r_exception # "unset" =>
        /\ (r_exception = "None") <=> (r_status_code = 200)
        /\ (r_exception = "ClientError") <=> (r_status_code \in 400..499)
        /\ (r_exception = "ServerError") <=> (r_status_code \in 500..599)
        /\ (r_exception = "UnexpectedStatusCodeError")
               <=> (r_status_code \notin {200} \cup (400..599))
        /\ r_exception \in {"None", "ClientError", "ServerError", "UnexpectedStatusCodeError"}

\* C5 witness: a 2xx status other than 200 has been classified as unexpected.
ClassificationWitness ==
    r_status_code = 204 /\ r_exception = "UnexpectedStatusCodeError"

\* A call is over: make_request has returned or raised.
Over(t) == pc[t] = "done"

\* C6: while every send of a call so far was answered 5xx and there were at
\* most 9 of them the call is not over (it sends again); and when k <= 9
\* sends answered 5xx and the next one 200, the call is over after these
\* k+1 sends and has returned that response.
RetryCounting ==
    \A t \in Threads :
        /\ (sends[t] >= 1 /\ seCount[t] = sends[t] /\ sends[t] <= 9) => ~Over(t)
        /\ (sends[t] >= 1 /\ seCount[t] = sends[t] - 1 /\ last[t] = 200)
              => (Over(t) /\ result[t] = [kind |-> "response", status |-> 200])

\* C6 witness: nine 5xx answers, then 200 on the tenth send.
RetryCountingWitness ==
    \E t \in Threads :
        /\ sends[t] = 10 /\ seCount[t] = 9 /\ last[t] = 200
        /\ result[t].kind = "response"

\* C7: when the first send of a call is answered 4xx the call is over after
\* that one send and has raised ClientError.
ClientErrorNotRetried ==
    \A t \in Threads :
        first[t] \in 400..499 =>
            /\ Over(t)
            /\ sends[t] = 1
            /\ result[t] = [kind |-> "ClientError", status |-> first[t]]

\* C7 witness: a call whose first send got 404 is over.
ClientErrorWitness ==
    \E t \in Threads : first[t] = 404 /\ Over(t) /\ limiter[t] = "base"

\* C8, the safety part: a call never sends more than 10 times, is over after
\* its 10th send, and when that send was answered with a retried status the
\* exception raised is the one classified from that 10th response.
BoundedRetriesInv ==
    \A t \in Threads :
        /\ sends[t] <= 10
        /\ sends[t] = 10 => Over(t)
        /\ (Over(t) /\ sends[t] = 10 /\ last[t] \notin {NoResponse, 200}
                /\ last[t] \notin 400..499)
              => result[t] = [kind |-> IF last[t] \in 500..599 THEN "ServerError"
                                       ELSE "UnexpectedStatusCodeError",
                              status |-> last[t]]

\* C8: the safety part always holds, and every call that was made ends.
BoundedRetries ==
    /\ []BoundedRetriesInv
    /\ \A t \in Threads : (pc[t] # "idle") ~> Over(t)

\* C8 witness: ten sends answered with a mix of 5xx and other retried
\* statuses, the last one not 5xx, and the call has raised.
BoundedRetriesWitness ==
    \E t \in Threads :
        /\ Over(t) /\ sends[t] = 10
        /\ seCount[t] \in 1..8
        /\ first[t] = 500
        /\ last[t] = 301
        /\ result[t].kind = "UnexpectedStatusCodeError"

\* C9 as claimed: a send that obtained no response is retried like a
\* ServerError: the call is not over while fewer than 10 sends were made.
TransportFailureRetried ==
    \A t \in Threads :
        (sends[t] >= 1 /\ last[t] = NoResponse /\ sends[t] < 10) => ~Over(t)

\* The limiter C10 claims for a request of method m: in by-method mode the
\* one whose configured key equals m when both are compared without case.
ClaimedLimiter(m) ==
    IF ~rps_by_method.none
    THEN IF \E k \in rps_by_method.keys : Lower(k) = Lower(m)
         THEN CHOOSE k \in rps_by_method.keys : Lower(k) = Lower(m)
         ELSE NoLimiter
    ELSE base_rps_limiter

\* C10 as claimed: during a call the limiter in use is the claimed one.
LimiterSelectionIgnoringCase ==
    \A t \in Threads : pc[t] # "idle" => limiter[t] = ClaimedLimiter(req[t])

\* C10 as amended: during a whole call (all its attempts) the limiter in use
\* is, in by-method mode, the one configured under exactly the lower-cased
\* method name, none when there is no such key; in blanket mode the single
\* limiter; with no mode, none.
LimiterSelection ==
    \A t \in Threads :
        pc[t] # "idle" =>
            limiter[t] =
                IF ~rps_by_method.none
                THEN IF \E k \in rps_by_method.keys : k = Lower(req[t])
                     THEN Lower(req[t]) ELSE NoLimiter
                ELSE base_rps_limiter

\* C10 witness: in by-method mode a "Get" request is on a retry under the
\* limiter configured as "get".
LimiterSelectionWitness ==
    \E t \in Threads :
        /\ ~rps_by_method.none
        /\ req[t] = "Get" /\ limiter[t] = "get"
        /\ pc[t] = "sleeping" /\ tries[t] < Tries

\* The devices of pages 1..n of the listing, in page order.
RECURSIVE AllPages(_)
AllPages(n) == IF n = 0 THEN <<>> ELSE AllPages(n - 1) \o PageData(n)

\* The call returned a list and no error: every page request succeeded.
ReturnedList == gd_ret.returned /\ gd_ret.error = "None"

\* C11: for a listing of N >= 1 pages whose page requests all succeed,
\* get_devices returns with no error the devices of pages 1..N in page
\* order, after exactly N page requests.
PaginationAccumulates ==
    ReturnedList =>
        /\ ~gd_ret.none
        /\ gd_ret.devices = AllPages(Len(srv_pages))
        /\ gd_fetches = Len(srv_pages)

\* C12: when the first response already reports page = max, get_devices
\* sends exactly one page request and returns exactly that response's
\* devices with no error, an empty page giving an empty list.
SinglePageBaseCase ==
    (gd_ret.returned /\ gd_ret.error = "None" /\ Len(srv_pages) = 1) =>
        /\ ~gd_ret.none
        /\ gd_fetches = 1
        /\ gd_ret.devices = PageData(1)
        /\ (srv_pages[1] = 0 => gd_ret.devices = <<>>)

SinglePageBaseCaseWitness ==
    /\ ReturnedList
    /\ Len(srv_pages) = 1
    /\ srv_pages[1] = MaxPageSize
    /\ Len(gd_ret.devices) = MaxPageSize

\* Entries of results appended for task i, and how many there are.
EntriesFor(i) == {r \in BagToSet(results) : r.task = i}
CountFor(i) == BagCardinality([r \in EntriesFor(i) |-> results[r]])

\* The with block has been left: results is what the call returns.
Complete == b_pc \in {"shutdown", "returned"}

\* C13: whatever the devices list, the worker cap and the outcomes of the
\* tasks, the bulk call returns exactly len(devices) results, exactly one
\* per submitted task and carrying that task's device id; at no time does a
\* task have two results.
BulkCardinality ==
    /\ \A i \in Tasks : CountFor(i) <= 1
    /\ \A r \in BagToSet(results) : r.task \in Tasks /\ r.device = devices[r.task]
    /\ Complete =>
          /\ BagCardinality(results) = Len(devices)
          /\ \A i \in Tasks : CountFor(i) = 1

BulkCardinalityWitness ==
    /\ b_pc = "returned"
    /\ Len(devices) = MaxTasks
    /\ devices[1] = devices[2]
    /\ \E r \in BagToSet(results) : r.error = "TimeoutError"
    /\ \E r \in BagToSet(results) : r.error = "Exception"

\* error field of the result of a task whose operation ended with outcome o
RealError(o) ==
    IF o = "ok" THEN "None" ELSE IF o = "error" THEN "Error" ELSE "Exception"

\* C15: every task finished when the wait ended has a result carrying its
\* own outcome, never a timeout; every task unfinished when the wait ended
\* has a TimeoutError result whose start_ts and end_ts are the snapshot ts
\* taken when the wait ended; the results are as many as the tasks.
TimeoutIsolation ==
    /\ \A i \in done :
          /\ fstate[i] = "finished"
          /\ b_pc # "waiting" =>
                \A r \in EntriesFor(i) : r.error = RealError(outcome[i]) /\ r.end_ts = ts
    /\ \A i \in timed_out : \A r \in EntriesFor(i) :
          r.error = "TimeoutError" /\ r.start_ts = ts /\ r.end_ts = ts
    /\ Complete =>
          /\ done \cup timed_out = Tasks
          /\ done \cap timed_out = {}
          /\ \A i \in Tasks : EntriesFor(i) # {}
          /\ BagCardinality(results) = Len(devices)

TimeoutIsolationWitness ==
    /\ b_pc = "returned"
    /\ ts > 0
    /\ \E i \in done, j \in timed_out :
          /\ \E r \in EntriesFor(i) : r.error = "None" /\ r.start_ts < ts
          /\ \E r \in EntriesFor(j) : r.error = "TimeoutError" /\ r.start_ts = ts

\* C16: a task whose operation raised or returned an error has that error
\* in its own result, the bulk call does not raise, and a task that
\* succeeded has an error-free result whatever the other tasks did.
FailureIsolation ==
    /\ b_pc # "raised"
    /\ b_pc \notin {"idle", "waiting"} =>
          \A i \in done :
             /\ EntriesFor(i) # {}
             /\ \A r \in EntriesFor(i) :
                   /\ outcome[i] = "raised" => r.error = "Exception"
                   /\ outcome[i] = "error" => r.error = "Error"
                   /\ outcome[i] = "ok" => r.error = "None"

FailureIsolationWitness ==
    /\ b_pc = "returned"
    /\ \E i \in done, j \in done :
          /\ outcome[i] = "raised"
          /\ outcome[j] = "ok"
          /\ \E r \in EntriesFor(j) : r.error = "None"
    /\ BagCardinality(results) = Len(devices)

\* C14: every bulk call eventually returns its results, even when the
\* operation of a task is still running at the deadline or never returns.
BatchCompletes == (b_pc = "waiting") ~> (b_pc = "returned")

\* C17 as stated: a task not yet started when the orchestrator cancels it
\* has its cancellation flag set, never runs its operation afterwards, and
\* its result is the timeout record.
CancelSetsTaskFlag ==
    \A i \in cancelOk :
        /\ cancelled[i]
        /\ fstate[i] = "cancelled"
        /\ outcome[i] = "none"
        /\ \A r \in EntriesFor(i) : r.error = "TimeoutError"

\* C17: a task whose future is still pending when the orchestrator cancels
\* it never runs its operation afterwards and its result is the timeout
\* record; what skips it is the cancelled future, MIPSTask.cancelled is
\* never set.
CancelledNeverRuns ==
    /\ \A i \in cancelOk :
          /\ fstate[i] = "cancelled"
          /\ outcome[i] = "none"
          /\ \A w \in TaskSlots : worker[w] # i
          /\ CountFor(i) = 1
          /\ \A r \in EntriesFor(i) : r.error = "TimeoutError"
    /\ \A i \in TaskSlots : ~cancelled[i]

CancelledNeverRunsWitness ==
    /\ b_pc = "returned"
    /\ \E i \in cancelOk, j \in timed_out : i # j /\ outcome[j] # "none"

\* Tasks the wait reported unfinished whose operation had begun by the time
\* the orchestrator reached them.
Stragglers == {i \in timed_out : EntriesFor(i) # {} /\ i \notin cancelOk}

\* C18: a task running at the deadline is not interrupted (it is running
\* or has finished with an outcome of its own, and has finished by the
\* time the call returns), its result stays the timeout record whatever
\* that outcome is, and once the call has returned no pool thread is left
\* that could touch results.
StragglersRunOn ==
    /\ \A i \in Stragglers :
          /\ fstate[i] \in {"running", "finished"}
          /\ fstate[i] = "finished" => outcome[i] \in TaskOutcomes
          /\ \A r \in EntriesFor(i) : r.error = "TimeoutError"
          /\ CountFor(i) = 1
    /\ b_pc = "returned" =>
          /\ \A i \in Stragglers : fstate[i] = "finished"
          /\ \A w \in TaskSlots : worker[w] = Idle
          /\ Running = {}

StragglersRunOnWitness ==
    /\ b_pc = "returned"
    /\ \E i \in Stragglers :
          /\ outcome[i] = "ok"
          /\ \E r \in EntriesFor(i) : r.error = "TimeoutError"

\* C19: at most th_cap operations run at any instant, th_cap being the
\* argument or DEFAULT_THREAD_COUNT, and a pool thread holds one task from
\* its start to its end: every running task is on exactly one thread and
\* every busy thread is on a running task.
WorkerCap ==
    b_pc # "idle" =>
        /\ th_cap \in (1..MaxWorkers) \cup {20}
        /\ Cardinality(Running) <= th_cap
        /\ \A i \in Running : Cardinality({w \in TaskSlots : worker[w] = i}) = 1
        /\ \A w \in TaskSlots : worker[w] # Idle => w <= th_cap /\ worker[w] \in Running

WorkerCapWitness ==
    /\ th_cap = 1
    /\ b_pc = "waiting"
    /\ \E i \in Tasks, j \in Running : fstate[i] = "finished" /\ worker[1] = j

\* C20: the deadline is self.timeout * len(devices), fixed for the whole
\* call; the wait never outlasts it, and results are recorded from the
\* instant all tasks are done or the deadline is reached: a wait that ended
\* early left no task unfinished, one that left a task unfinished ended at
\* the deadline.
GroupDeadline ==
    b_pc # "idle" =>
        /\ group_timeout = timeout * Len(devices)
        /\ clock <= timeout * Len(devices)
        /\ b_pc # "waiting" =>
              /\ ts = clock
              /\ ts < timeout * Len(devices) => timed_out = {}
              /\ timed_out # {} => ts = timeout * Len(devices)

GroupDeadlineWitness ==
    /\ b_pc = "returned"
    /\ Len(devices) = MaxTasks
    /\ timed_out # {}
    /\ done # {}
    /\ ts = MaxTimeout * MaxTasks

\* C21: the delay slept before attempt n+1 of one make_request call is
\* 1 * 2^(n-1) seconds for n = 1..9; a sleep only follows an attempt
\* answered with a retried status, never the start of the call, a success
\* or a ClientError.
BackoffSchedule ==
    LET t == Caller IN
    /\ pc[t] = "backoff" =>
          /\ sends[t] \in 1..9
          /\ delay[t] = 2^(sends[t] - 1)
          /\ last[t] \notin {200, NoResponse}
          /\ ~(400 <= last[t] /\ last[t] < 500)
    /\ (pc[t] \in {"sem", "lock", "sleeping", "send"} /\ sends[t] = 0) => delay[t] = 1
    /\ (pc[t] = "done" /\ last[t] = 200) => delay[t] = 2^(sends[t] - 1)

BackoffScheduleWitness ==
    /\ pc[Caller] = "backoff"
    /\ sends[Caller] = 9
    /\ delay[Caller] = 256

\* C22: at most one of rps_by_method and base_rps_limiter is set, and no
\* step of any request changes either attribute or the limiters they hold.
OneDispatchMode ==
    /\ [](rps_by_method.none \/ base_rps_limiter = NoLimiter)
    /\ [][UNCHANGED <<rps_by_method, base_rps_limiter, concurrent_requests>>]_vars

OneDispatchModeWitness ==
    /\ ~rps_by_method.none
    /\ rps_by_method.keys = ConfigKeys
    /\ base_rps_limiter = NoLimiter
    /\ pc[Caller] = "done"
    /\ result[Caller].kind = "response"

\* The limiter fields of instance l differ between the two states of a step.
Touched(l) ==
    \/ last_request_time'[l] # last_request_time[l]
    \/ sem'[l] # sem[l]
    \/ rps_lock'[l] # rps_lock[l]

\* C23: a thread entering limiter l is held back only by l's own semaphore
\* and lock and sleeps only for l's own last request, and a step of a
\* thread changes the timestamp, semaphore and lock of no limiter but the
\* one that thread is using.
IndependentLimiters ==
    /\ [](\A t \in Pair :
            /\ (pc[t] = "sem" /\ sem[limiter[t]] > 0) => ENABLED SemAcquire(t)
            /\ (pc[t] = "lock" /\ rps_lock[limiter[t]] = Unlocked) => ENABLED LockAcquire(t)
            /\ pc[t] = "sleeping" =>
                  wake[t] <= Max(now, last_request_time[limiter[t]] + IntervalMs))
    /\ [][pc' # pc =>
            \A l \in LimiterIds :
               Touched(l) => \E t \in Pair : pc'[t] # pc[t] /\ l \in {limiter[t], limiter'[t]}]_vars

IndependentLimitersWitness ==
    \E t \in Pair, u \in Pair :
        /\ limiter[t] = "get" /\ pc[t] = "sleeping" /\ rps_lock["get"] = t
        /\ limiter[u] = "put" /\ pc[u] = "sleeping" /\ rps_lock["put"] = u
        /\ sem["get"] = 0 /\ sem["put"] = 0

\* C24: every make_request call that ends in a terminal failure has
\* logged, before the exception reaches the caller, a record naming the
\* destination and the elapsed time of the failed request.
TerminalFailureLogged ==
    LET t == Caller IN
    (pc[t] = "done" /\ result[t].kind \notin {"none", "response"}) =>
        "attempt" \in logged[t]

\* C25 as stated: get_devices never has more than one activation.
PaginationIterative == gd_depth <= 1

\* C25: get_devices is recursive: each page that is not the last adds one
\* activation, so the request for page k is sent with k nested activations
\* and the base case is reached at depth N.
PaginationRecursive ==
    /\ gd_pc = "active" => gd_depth = gd_fetches + 1
    /\ gd_pc = "active" => gd_depth <= Len(srv_pages)
    /\ gd_pc # "active" => gd_depth = 0

PaginationRecursiveWitness ==
    /\ gd_pc = "active"
    /\ Len(srv_pages) = MaxPages
    /\ gd_depth = MaxPages

\* C28: when the request for any page fails, get_devices returns
\* (None, error) with no device of the pages before it, and no further page
\* is requested: the failed request is the last one.
PaginationFailsWhole ==
    (gd_ret.returned /\ gd_ret.error # "None") =>
        /\ gd_ret.none
        /\ gd_ret.devices = <<>>
        /\ gd_pc = "returned"
        /\ gd_fetches = PageParam(gd_page)
        /\ gd_fetches <= Len(srv_pages)

PaginationFailsWholeWitness ==
    /\ gd_ret.returned
    /\ gd_ret.error = "ServerError"
    /\ gd_fetches = MaxPages
    /\ srv_pages[1] > 0
    /\ gd_results # <<>>

\* C29: the first request is for page 1 and every later one for the page
\* the latest response reported plus one; against a server that reports
\* the page it was asked for, the k-th request is for page k, no request
\* goes beyond max, and the call returns, with the list after the response
\* whose page is max.
PaginationProgress ==
    /\ [](gd_pc = "active" =>
            /\ gd_fetches = 0 => PageParam(gd_page) = 1
            /\ gd_fetches > 0 => PageParam(gd_page) = gd_reported + 1)
    /\ [](srv_skew = 0 =>
            /\ gd_pc = "active" =>
                  PageParam(gd_page) = gd_fetches + 1 /\ gd_fetches < Len(srv_pages)
            /\ ReturnedList => gd_fetches = Len(srv_pages) /\ gd_reported = Len(srv_pages))
    /\ (srv_skew = 0 /\ gd_pc = "active") ~> (gd_pc = "returned")

PaginationProgressWitness ==
    /\ srv_skew = 0
    /\ ReturnedList
    /\ Len(srv_pages) = MaxPages
    /\ gd_fetches = MaxPages

\* C26: at most one authentication request of a client is in flight, and
\* the authenticated flag and the session cookies are never being written
\* by two threads at once.
AuthSerialized ==
    /\ Cardinality({t \in Threads : a_pc[t] = "auth"}) <= 1
    /\ Cardinality({t \in Threads : a_pc[t] \in {"auth", "cookies"}}) <= 1

\* The threads waiting in the retry decorator's time.sleep(_delay).
BackingOff == {t \in Threads : pc[t] = "backoff"}

\* C27: every send of a call, a retry included, is reached through the
\* limiter's __enter__ (the thread proceeds out of the spacing sleep, which
\* stamps the limiter, in the very step that takes it to the send); a
\* thread leaves the backoff wait into __enter__; and the slots taken from
\* a capped limiter are exactly those of the threads between acquire and
\* __exit__, so a thread in the backoff wait holds none.
LimiterPerAttempt ==
    /\ [](\A l \in LimiterIds : Capped(l) =>
            sem[l] = concurrent_requests[l]
                     - Cardinality({t \in Threads \ BackingOff :
                                      limiter[t] = l /\ pc[t] \in {"lock", "sleeping", "send"}}))
    /\ [][\A t \in Threads :
            /\ (pc[t] # "send" /\ pc'[t] = "send") =>
                  /\ pc[t] = "sleeping"
                  /\ limiter[t] # NoLimiter
                  /\ last_request_time'[limiter[t]] = now
            /\ (pc[t] = "backoff" /\ pc'[t] # "backoff") =>
                  pc'[t] \in {"sem", "lock"}]_vars

\* C27 witness: on a capped limiter one thread is in the guarded body of a
\* retry while the other waits to retry, and the slot of the waiting thread
\* is free.
LimiterPerAttemptWitness ==
    /\ Capped("base")
    /\ \E t, u \in Threads :
          /\ pc[t] = "send" /\ tries[t] < Tries
          /\ pc[u] = "backoff"
          /\ sem["base"] = concurrent_requests["base"] - 1

\* C30: in production mode the validation GET is sent only after the PUT
\* ended without error; a failed PUT is the result's error and no GET is
\* sent; a failed GET is the result's error; a fetched status other than
\* the requested one gives a validation error; and a result without error
\* means the fetched status equals the requested one.
PatchThenValidate ==
    /\ (pv_pc = "get" \/ pv_get # "unsent") => pv_put = "ok"
    /\ (pv_pc = "returned" /\ pv_result.mode = "production") =>
          /\ pv_put # "ok" => (pv_result.error = pv_put /\ pv_get = "unsent")
          /\ pv_get \in FetchErrors => pv_result.error = pv_get
          /\ (pv_get = "ok" /\ bl_status # switch_status) =>
                pv_result.error = "ValidationError"
          /\ pv_result.error = "None" =>
                (pv_put = "ok" /\ pv_get = "ok" /\ bl_status = switch_status)

\* C30 witness: the PUT succeeded, the GET reported the other status and
\* the result carries the validation error.
PatchThenValidateWitness ==
    /\ pv_pc = "returned"
    /\ pv_result.mode = "production"
    /\ pv_put = "ok"
    /\ pv_get = "ok"
    /\ bl_status # switch_status
    /\ pv_result.error = "ValidationError"

UniformResults ==
    \A r \in BagToSet(results) :
        /\ r.mode = (IF shadow_mode = "True" THEN "shadow" ELSE "production")
        /\ r.backlight_status = BacklightName(switch_status)
        /\ r.start_ts \in 0..r.end_ts
        /\ r.end_ts = ts

\* C32 witness: the returned results hold the record of a future that
\* timed out and the record of a done future whose task had started before
\* the instant taken after the wait.
UniformResultsWitness ==
    /\ b_pc = "returned"
    /\ \E r, q \in BagToSet(results) :
          /\ r.error = "TimeoutError"
          /\ q.error # "TimeoutError"
          /\ q.start_ts < q.end_ts

\* C33: a 200 response holding the marker is classified as
\* InvalidAUTHError; the send that is answered with it ends the call at
\* once, without a try being used up or a sleep, and the caller gets it;
\* the authenticated flag, once set, stays set; and while it is set no
\* authentication request is sent.
InvalidAuthSurfaced ==
    /\ [](/\ mips_response_to_exception(200, TRUE) = "InvalidAUTHError"
          /\ \A t \in Threads :
                result[t].kind = "InvalidAUTHError" =>
                    (pc[t] = "done" /\ result[t].status = 200))
    /\ [][\A t \in Threads :
            (result[t].kind # "InvalidAUTHError" /\ result'[t].kind = "InvalidAUTHError") =>
                /\ pc[t] = "send"
                /\ sends'[t] = sends[t] + 1
                /\ tries'[t] = tries[t]]_vars
    /\ [][ok_auth => ok_auth']_vars
    /\ [][ok_auth => \A t \in Threads :
            ~(a_pc[t] = "auth" /\ sends'[t] = sends[t] + 1)]_vars

\* C34: no workflow raises, a workflow whose device fetch failed returns a
\* result with its error set, and execute_tasks raises nothing and, once
\* it has appended to the log sheet, has collected the result of every
\* workflow it submitted.
WorkflowsReturnValues ==
    /\ \A w \in Workflows :
          /\ wf_pc[w] # "raised"
          /\ (WfOver(w) /\ wf_fetch[w] \notin {"none", "ok"}) =>
                (wf_pc[w] = "returned" /\ wf_error[w] # "None")
    /\ et_pc # "raised"
    /\ et_pc = "appended" => et_results = Workflows

\* C35: a workflow that has returned sent the success notification only if
\* its result has no error and the error notification only if it has one,
\* and never both.
NotificationMatchesOutcome ==
    \A w \in Workflows :
        wf_pc[w] = "returned" =>
            /\ "success" \in wf_sent[w] => wf_error[w] = "None"
            /\ "error" \in wf_sent[w] => wf_error[w] # "None"
            /\ wf_sent[w] # {"error", "success"}

\* C36: _make_request of the sheets gateway returns (response, None) or
\* (None, error); it makes at most SheetTries attempts and retries only
\* after a 5xx HttpError, any other outcome being returned by the attempt
\* that met it; an unknown request type gives a ValueError with no limiter
\* entered and nothing sent; a read enters only the read limiter and a
\* write only the write limiter.
SheetsWrapper ==
    /\ sh_pc \in {"idle", "attempt", "returned"}
    /\ sh_pc = "returned" =>
          \/ sh_ret.resp = "response" /\ sh_ret.err = "None"
          \/ sh_ret.resp = "None" /\ sh_ret.err \notin {"None", "unset"}
    /\ sh_attempts <= SheetTries
    /\ sh_pc = "attempt" => \A o \in sh_seen : 500 <= o /\ o < 600
    /\ (\A o \in sh_seen : ~(500 <= o /\ o < 600)) => sh_attempts <= 1
    /\ (sh_pc = "returned" /\ sh_ret.err = "GoogleSheetRetriableError") =>
          sh_attempts = SheetTries
    /\ sh_type \notin {R_REQUEST, W_REQUEST} =>
          /\ sh_entered = {} /\ sh_attempts = 0
          /\ sh_pc = "returned" => sh_ret.err = "ValueError"
    /\ sh_type = R_REQUEST => sh_entered \subseteq {"read"}
    /\ sh_type = W_REQUEST => sh_entered \subseteq {"write"}

\* C36 witness: a write gave up after SheetTries attempts that all met a
\* 5xx error.
SheetsWrapperWitness ==
    /\ sh_type = W_REQUEST
    /\ sh_pc = "returned"
    /\ sh_ret.err = "GoogleSheetRetriableError"
    /\ sh_attempts = SheetTries
    /\ sh_entered = {"write"}

\* C37: send_message makes at most TgTries attempts and another attempt
\* only after a 429 answer, having slept the retry_after of every 429 answer
\* it got, in order; a failure other than 429 is returned as a value and
\* never raised; and None is returned exactly when an attempt succeeded.
TelegramRetry ==
    /\ tg_attempts <= TgTries
    /\ tg_pc = "attempt" => tg_seen \subseteq {429}
    /\ tg_slept = tg_asked
    /\ tg_pc \in {"attempt", "raised"} => Len(tg_slept) = tg_attempts
    /\ tg_pc = "raised" => (tg_seen = {429} /\ tg_attempts = TgTries)
    /\ (tg_pc = "returned" /\ 200 \notin tg_seen) => tg_ret = "error"
    /\ (tg_pc # "idle" /\ tg_ret = "None") <=> 200 \in tg_seen

\* C37 witness: the third attempt succeeded after two 429 answers that
\* asked for different waits.
TelegramRetryWitness ==
    /\ tg_pc = "returned"
    /\ tg_ret = "None"
    /\ tg_attempts = TgTries
    /\ Len(tg_slept) = 2
    /\ tg_slept[1] # tg_slept[2]

\* C38: a call of append_data that went through removed exactly
\* max(0, c + n - L) rows, the oldest ones, in one batch with the delete
\* before the append, and the tab never holds more than L data rows.
RowLimitKept ==
    /\ Len(sheet_rows) <= row_limit
    /\ ap_last.applied =>
          /\ ap_last.removed = ToDelete(ap_last.c, ap_last.n, row_limit)
          /\ ap_last.ops \in {<<"appendCells">>, <<"deleteDimension", "appendCells">>}
    /\ \A i, j \in 1..Len(sheet_rows) : i <= j => sheet_rows[i] <= sheet_rows[j]

\* C39: outside the development environment the loop survives every
\* iteration: after main() returned or raised an Exception, however long it
\* took, the finally block goes to sleep and the next iteration follows; the
\* loop ends only by a KeyboardInterrupt.
LoopSurvives ==
    /\ [](lp_env # DEV_ENV /\ lp_pc = "ended" => lp_end = "KeyboardInterrupt")
    /\ [][lp_pc = "finally" /\ lp_env # DEV_ENV => lp_pc' = "sleep"]_vars
    /\ [][lp_pc = "sleep" /\ lp_pc' = "ended" => lp_end' = "KeyboardInterrupt"]_vars

====
